---- MODULE Spec2Model ----
(***************************************************************************)
(* Receipts acquisition of op-service/sources/receipts.go: the caching     *)
(* wrapper, the adaptive RPC-method selector with failure-driven fallback, *)
(* the per-transaction fetch path and the receipt-set validator.           *)
(***************************************************************************)
EXTENDS Integers, Sequences, FiniteSets, TLC

VARIABLES
    cache,                    \* CachingReceiptsProvider.cache: LRU, least recently used first
    provKind,                 \* RPCReceiptsFetcher.provKind
    availableReceiptMethods,  \* RPCReceiptsFetcher.availableReceiptMethods (bitfield)
    lastMethodsReset,         \* RPCReceiptsFetcher.lastMethodsReset
    methodResetDuration,      \* RPCReceiptsFetcher.methodResetDuration
    now,                      \* the clock read by time.Now()
    ret,                      \* what the last call did and returned
    pick,                     \* arguments and result of a direct PickBestReceiptsFetchingMethod call
    val,                      \* arguments and result of a direct validateReceipts call
    flag,                     \* an RPCProviderKind flag value, the string given to Set and its result
    inflight,                 \* a FetchReceipts call of the fetcher between its pick and its request
    calls,                    \* the overlapping FetchReceipts calls: where each caller is, and its locals
    tried,                    \* the methods a fetcher tried, call after call, against a rejecting node
    basic                     \* a FetchReceipts call of BasicRPCReceiptsFetcher, step by step

vars == <<cache, provKind, availableReceiptMethods, lastMethodsReset,
          methodResetDuration, now, ret, pick, val, flag, inflight, calls, tried, basic>>

fetcherVars == <<provKind, availableReceiptMethods, lastMethodsReset, methodResetDuration>>

----------------------------------------------------------------------------
(* Bounds of the model *)

MaxTime == 3            \* the clock runs from 0 to MaxTime
MaxResetDuration == 2   \* methodResetDuration is configured in 1..MaxResetDuration
CacheSize == 1          \* capacity of the receipts cache (cacheSize)
SmallTxCount == 2       \* transactions of the small block
LargeTxCount == 34      \* transactions of the large block
GasModulus == 64        \* uint64 arithmetic of the gas fields, scaled down
MaxTxCount == 35        \* txCount of a direct PickBestReceiptsFetchingMethod call
MaxAvailable == 127     \* `available` of a direct call: the six known bits and one unknown
MaxReceipts == 2        \* receipts of a list given to validateReceipts directly
MaxLogs == 2            \* logs of one receipt of such a list
MaxGas == 1             \* gas used by one transaction of such a list
MaxCalls == 7           \* calls made in a row against a node that rejects the bulk methods
MaxBasicTx == 6         \* transactions of a block fetched by BasicRPCReceiptsFetcher step by step
MaxBatchSize == 3       \* maxBatchSize of BasicRPCReceiptsFetcher is configured in 1..MaxBatchSize

----------------------------------------------------------------------------
(* ReceiptsFetchingMethod: a bitfield with one bit per method *)

EthGetTransactionReceiptBatch == 1
AlchemyGetTransactionReceipts == 2
DebugGetRawReceipts == 4
ParityGetBlockReceipts == 8
EthGetBlockReceipts == 16
ErigonGetBlockReceiptsByBlockHash == 32

KnownMethods == {EthGetTransactionReceiptBatch, AlchemyGetTransactionReceipts,
                 DebugGetRawReceipts, ParityGetBlockReceipts, EthGetBlockReceipts,
                 ErigonGetBlockReceiptsByBlockHash}

RECURSIVE BitAnd(_, _)
\* a & b
BitAnd(a, b) ==
    IF a = 0 \/ b = 0 THEN 0
    ELSE (a % 2) * (b % 2) + 2 * BitAnd(a \div 2, b \div 2)

\* a | b
BitOr(a, b) == a + b - BitAnd(a, b)

\* a &^ b
BitAndNot(a, b) == a - BitAnd(a, b)

RECURSIVE OrAll(_)
OrAll(S) ==
    IF S = {} THEN 0
    ELSE LET m == CHOOSE x \in S : TRUE IN BitOr(m, OrAll(S \ {m}))

----------------------------------------------------------------------------
(* RPCProviderKind *)

RPCKindAlchemy == "alchemy"
RPCKindQuickNode == "quicknode"
RPCKindInfura == "infura"
RPCKindParity == "parity"
RPCKindNethermind == "nethermind"
RPCKindDebugGeth == "debug_geth"
RPCKindErigon == "erigon"
RPCKindBasic == "basic"
RPCKindAny == "any"
RPCKindStandard == "standard"

RPCProviderKinds == {RPCKindAlchemy, RPCKindQuickNode, RPCKindInfura, RPCKindParity,
                     RPCKindNethermind, RPCKindDebugGeth, RPCKindErigon, RPCKindBasic,
                     RPCKindAny, RPCKindStandard}

\* a kind string that is none of the enumerated ones
UnknownKind == "unknown"

\* AvailableReceiptsFetchingMethods that knows no method for a kind it does not know
AvailableReceiptsFetchingMethods_DefaultNone(kind) ==
    CASE kind = RPCKindAlchemy ->
            OrAll({AlchemyGetTransactionReceipts, EthGetBlockReceipts, EthGetTransactionReceiptBatch})
      [] kind = RPCKindQuickNode ->
            OrAll({DebugGetRawReceipts, EthGetBlockReceipts, EthGetTransactionReceiptBatch})
      [] kind = RPCKindInfura -> EthGetTransactionReceiptBatch
      [] kind = RPCKindParity -> BitOr(ParityGetBlockReceipts, EthGetTransactionReceiptBatch)
      [] kind = RPCKindNethermind -> BitOr(ParityGetBlockReceipts, EthGetTransactionReceiptBatch)
      [] kind = RPCKindDebugGeth -> BitOr(DebugGetRawReceipts, EthGetTransactionReceiptBatch)
      [] kind = RPCKindErigon -> BitOr(ErigonGetBlockReceiptsByBlockHash, EthGetTransactionReceiptBatch)
      [] kind = RPCKindBasic -> EthGetTransactionReceiptBatch
      [] kind = RPCKindAny ->
            OrAll({AlchemyGetTransactionReceipts, EthGetBlockReceipts, DebugGetRawReceipts,
                   ErigonGetBlockReceiptsByBlockHash, ParityGetBlockReceipts,
                   EthGetTransactionReceiptBatch})
      [] kind = RPCKindStandard -> BitOr(EthGetBlockReceipts, EthGetTransactionReceiptBatch)
      [] OTHER -> 0

\* AvailableReceiptsFetchingMethods: the registry default of a kind
AvailableReceiptsFetchingMethods(kind) ==
    CASE kind = RPCKindAlchemy ->
            OrAll({AlchemyGetTransactionReceipts, EthGetBlockReceipts, EthGetTransactionReceiptBatch})
      [] kind = RPCKindQuickNode ->
            OrAll({DebugGetRawReceipts, EthGetBlockReceipts, EthGetTransactionReceiptBatch})
      [] kind = RPCKindInfura -> EthGetTransactionReceiptBatch
      [] kind = RPCKindParity -> BitOr(ParityGetBlockReceipts, EthGetTransactionReceiptBatch)
      [] kind = RPCKindNethermind -> BitOr(ParityGetBlockReceipts, EthGetTransactionReceiptBatch)
      [] kind = RPCKindDebugGeth -> BitOr(DebugGetRawReceipts, EthGetTransactionReceiptBatch)
      [] kind = RPCKindErigon -> BitOr(ErigonGetBlockReceiptsByBlockHash, EthGetTransactionReceiptBatch)
      [] kind = RPCKindBasic -> EthGetTransactionReceiptBatch
      [] kind = RPCKindAny ->
            OrAll({AlchemyGetTransactionReceipts, EthGetBlockReceipts, DebugGetRawReceipts,
                   ErigonGetBlockReceiptsByBlockHash, ParityGetBlockReceipts,
                   EthGetTransactionReceiptBatch})
      [] kind = RPCKindStandard -> BitOr(EthGetBlockReceipts, EthGetTransactionReceiptBatch)
      [] OTHER -> EthGetTransactionReceiptBatch

\* PickBestReceiptsFetchingMethod with the alchemy branch looking at the cost only
PickBest_IgnoresAvailable(kind, available, txCount) ==
    IF kind = RPCKindAlchemy THEN
        IF txCount > 250 \div 15 THEN AlchemyGetTransactionReceipts
        ELSE IF txCount > 500 \div 15 THEN EthGetBlockReceipts
        ELSE EthGetTransactionReceiptBatch
    ELSE IF kind = RPCKindQuickNode THEN
        IF BitAnd(available, DebugGetRawReceipts) # 0
            THEN DebugGetRawReceipts
        ELSE IF BitAnd(available, EthGetBlockReceipts) # 0 /\ txCount > 59 \div 2
            THEN EthGetBlockReceipts
        ELSE EthGetTransactionReceiptBatch
    ELSE IF BitAnd(available, AlchemyGetTransactionReceipts) # 0
        THEN AlchemyGetTransactionReceipts
    ELSE IF BitAnd(available, DebugGetRawReceipts) # 0
        THEN DebugGetRawReceipts
    ELSE IF BitAnd(available, ErigonGetBlockReceiptsByBlockHash) # 0
        THEN ErigonGetBlockReceiptsByBlockHash
    ELSE IF BitAnd(available, EthGetBlockReceipts) # 0
        THEN EthGetBlockReceipts
    ELSE IF BitAnd(available, ParityGetBlockReceipts) # 0
        THEN ParityGetBlockReceipts
    ELSE EthGetTransactionReceiptBatch

\* PickBestReceiptsFetchingMethod with the two alchemy tests in the other order
PickBest_BlockReceiptsFirst(kind, available, txCount) ==
    IF kind = RPCKindAlchemy THEN
        IF BitAnd(available, EthGetBlockReceipts) # 0 /\ txCount > 500 \div 15
            THEN EthGetBlockReceipts
        ELSE IF BitAnd(available, AlchemyGetTransactionReceipts) # 0 /\ txCount > 250 \div 15
            THEN AlchemyGetTransactionReceipts
        ELSE EthGetTransactionReceiptBatch
    ELSE IF kind = RPCKindQuickNode THEN
        IF BitAnd(available, DebugGetRawReceipts) # 0
            THEN DebugGetRawReceipts
        ELSE IF BitAnd(available, EthGetBlockReceipts) # 0 /\ txCount > 59 \div 2
            THEN EthGetBlockReceipts
        ELSE EthGetTransactionReceiptBatch
    ELSE IF BitAnd(available, AlchemyGetTransactionReceipts) # 0
        THEN AlchemyGetTransactionReceipts
    ELSE IF BitAnd(available, DebugGetRawReceipts) # 0
        THEN DebugGetRawReceipts
    ELSE IF BitAnd(available, ErigonGetBlockReceiptsByBlockHash) # 0
        THEN ErigonGetBlockReceiptsByBlockHash
    ELSE IF BitAnd(available, EthGetBlockReceipts) # 0
        THEN EthGetBlockReceipts
    ELSE IF BitAnd(available, ParityGetBlockReceipts) # 0
        THEN ParityGetBlockReceipts
    ELSE EthGetTransactionReceiptBatch

\* PickBestReceiptsFetchingMethod with the two alchemy costs exchanged
PickBest_CostsExchanged(kind, available, txCount) ==
    IF kind = RPCKindAlchemy THEN
        IF BitAnd(available, AlchemyGetTransactionReceipts) # 0 /\ txCount > 500 \div 15
            THEN AlchemyGetTransactionReceipts
        ELSE IF BitAnd(available, EthGetBlockReceipts) # 0 /\ txCount > 250 \div 15
            THEN EthGetBlockReceipts
        ELSE EthGetTransactionReceiptBatch
    ELSE IF kind = RPCKindQuickNode THEN
        IF BitAnd(available, DebugGetRawReceipts) # 0
            THEN DebugGetRawReceipts
        ELSE IF BitAnd(available, EthGetBlockReceipts) # 0 /\ txCount > 59 \div 2
            THEN EthGetBlockReceipts
        ELSE EthGetTransactionReceiptBatch
    ELSE IF BitAnd(available, AlchemyGetTransactionReceipts) # 0
        THEN AlchemyGetTransactionReceipts
    ELSE IF BitAnd(available, DebugGetRawReceipts) # 0
        THEN DebugGetRawReceipts
    ELSE IF BitAnd(available, ErigonGetBlockReceiptsByBlockHash) # 0
        THEN ErigonGetBlockReceiptsByBlockHash
    ELSE IF BitAnd(available, EthGetBlockReceipts) # 0
        THEN EthGetBlockReceipts
    ELSE IF BitAnd(available, ParityGetBlockReceipts) # 0
        THEN ParityGetBlockReceipts
    ELSE EthGetTransactionReceiptBatch

\* PickBestReceiptsFetchingMethod with quicknode's debug method gated by the break-even
PickBest_DebugAboveBreakEven(kind, available, txCount) ==
    IF kind = RPCKindAlchemy THEN
        IF BitAnd(available, AlchemyGetTransactionReceipts) # 0 /\ txCount > 250 \div 15
            THEN AlchemyGetTransactionReceipts
        ELSE IF BitAnd(available, EthGetBlockReceipts) # 0 /\ txCount > 500 \div 15
            THEN EthGetBlockReceipts
        ELSE EthGetTransactionReceiptBatch
    ELSE IF kind = RPCKindQuickNode THEN
        IF BitAnd(available, DebugGetRawReceipts) # 0 /\ txCount > 59 \div 2
            THEN DebugGetRawReceipts
        ELSE IF BitAnd(available, EthGetBlockReceipts) # 0 /\ txCount > 59 \div 2
            THEN EthGetBlockReceipts
        ELSE EthGetTransactionReceiptBatch
    ELSE IF BitAnd(available, AlchemyGetTransactionReceipts) # 0
        THEN AlchemyGetTransactionReceipts
    ELSE IF BitAnd(available, DebugGetRawReceipts) # 0
        THEN DebugGetRawReceipts
    ELSE IF BitAnd(available, ErigonGetBlockReceiptsByBlockHash) # 0
        THEN ErigonGetBlockReceiptsByBlockHash
    ELSE IF BitAnd(available, EthGetBlockReceipts) # 0
        THEN EthGetBlockReceipts
    ELSE IF BitAnd(available, ParityGetBlockReceipts) # 0
        THEN ParityGetBlockReceipts
    ELSE EthGetTransactionReceiptBatch

\* PickBestReceiptsFetchingMethod with eth_getBlockReceipts preferred to the erigon method
PickBest_BlockReceiptsBeforeErigon(kind, available, txCount) ==
    IF kind = RPCKindAlchemy THEN
        IF BitAnd(available, AlchemyGetTransactionReceipts) # 0 /\ txCount > 250 \div 15
            THEN AlchemyGetTransactionReceipts
        ELSE IF BitAnd(available, EthGetBlockReceipts) # 0 /\ txCount > 500 \div 15
            THEN EthGetBlockReceipts
        ELSE EthGetTransactionReceiptBatch
    ELSE IF kind = RPCKindQuickNode THEN
        IF BitAnd(available, DebugGetRawReceipts) # 0
            THEN DebugGetRawReceipts
        ELSE IF BitAnd(available, EthGetBlockReceipts) # 0 /\ txCount > 59 \div 2
            THEN EthGetBlockReceipts
        ELSE EthGetTransactionReceiptBatch
    ELSE IF BitAnd(available, AlchemyGetTransactionReceipts) # 0
        THEN AlchemyGetTransactionReceipts
    ELSE IF BitAnd(available, DebugGetRawReceipts) # 0
        THEN DebugGetRawReceipts
    ELSE IF BitAnd(available, EthGetBlockReceipts) # 0
        THEN EthGetBlockReceipts
    ELSE IF BitAnd(available, ErigonGetBlockReceiptsByBlockHash) # 0
        THEN ErigonGetBlockReceiptsByBlockHash
    ELSE IF BitAnd(available, ParityGetBlockReceipts) # 0
        THEN ParityGetBlockReceipts
    ELSE EthGetTransactionReceiptBatch

\* PickBestReceiptsFetchingMethod that returns what is left of `available` when no bulk method is
PickBest_ReturnsRemaining(kind, available, txCount) ==
    IF kind = RPCKindAlchemy THEN
        IF BitAnd(available, AlchemyGetTransactionReceipts) # 0 /\ txCount > 250 \div 15
            THEN AlchemyGetTransactionReceipts
        ELSE IF BitAnd(available, EthGetBlockReceipts) # 0 /\ txCount > 500 \div 15
            THEN EthGetBlockReceipts
        ELSE EthGetTransactionReceiptBatch
    ELSE IF kind = RPCKindQuickNode THEN
        IF BitAnd(available, DebugGetRawReceipts) # 0
            THEN DebugGetRawReceipts
        ELSE IF BitAnd(available, EthGetBlockReceipts) # 0 /\ txCount > 59 \div 2
            THEN EthGetBlockReceipts
        ELSE EthGetTransactionReceiptBatch
    ELSE IF BitAnd(available, AlchemyGetTransactionReceipts) # 0
        THEN AlchemyGetTransactionReceipts
    ELSE IF BitAnd(available, DebugGetRawReceipts) # 0
        THEN DebugGetRawReceipts
    ELSE IF BitAnd(available, ErigonGetBlockReceiptsByBlockHash) # 0
        THEN ErigonGetBlockReceiptsByBlockHash
    ELSE IF BitAnd(available, EthGetBlockReceipts) # 0
        THEN EthGetBlockReceipts
    ELSE IF BitAnd(available, ParityGetBlockReceipts) # 0
        THEN ParityGetBlockReceipts
    ELSE BitAnd(available, EthGetTransactionReceiptBatch)

PickBestReceiptsFetchingMethod(kind, available, txCount) ==
    IF kind = RPCKindAlchemy THEN
        IF BitAnd(available, AlchemyGetTransactionReceipts) # 0 /\ txCount > 250 \div 15
            THEN AlchemyGetTransactionReceipts
        ELSE IF BitAnd(available, EthGetBlockReceipts) # 0 /\ txCount > 500 \div 15
            THEN EthGetBlockReceipts
        ELSE EthGetTransactionReceiptBatch
    ELSE IF kind = RPCKindQuickNode THEN
        IF BitAnd(available, DebugGetRawReceipts) # 0
            THEN DebugGetRawReceipts
        ELSE IF BitAnd(available, EthGetBlockReceipts) # 0 /\ txCount > 59 \div 2
            THEN EthGetBlockReceipts
        ELSE EthGetTransactionReceiptBatch
    ELSE IF BitAnd(available, AlchemyGetTransactionReceipts) # 0
        THEN AlchemyGetTransactionReceipts
    ELSE IF BitAnd(available, DebugGetRawReceipts) # 0
        THEN DebugGetRawReceipts
    ELSE IF BitAnd(available, ErigonGetBlockReceiptsByBlockHash) # 0
        THEN ErigonGetBlockReceiptsByBlockHash
    ELSE IF BitAnd(available, EthGetBlockReceipts) # 0
        THEN EthGetBlockReceipts
    ELSE IF BitAnd(available, ParityGetBlockReceipts) # 0
        THEN ParityGetBlockReceipts
    ELSE EthGetTransactionReceiptBatch

----------------------------------------------------------------------------
(* Errors. NoErr is Go's nil error. *)

NoErr == [kind |-> "nil"]

\* an RPC error that reports the method as unknown or unsupported
ErrMethodNotFound == [kind |-> "method_not_found"]

\* a timeout or another generic RPC error
ErrTimeout == [kind |-> "timeout"]

\* unusableMethod(err): whether the provider rejected the method itself
unusableMethod(err) == err.kind \in {"method_not_found"}

\* ValidRPCProviderKind: whether the value is one of RPCProviderKinds
ValidRPCProviderKind(value) == \E k \in RPCProviderKinds : k = value

\* RPCProviderKind.Set that assigns before it validates
Set_AssignsFirst(kind, value) ==
    [kind |-> value,
     err |-> IF ~ValidRPCProviderKind(value)
                THEN [kind |-> "unknown_rpc_kind", value |-> value] ELSE NoErr]

\* RPCProviderKind.Set on a receiver holding `kind`: the receiver after, and the error
Set(kind, value) ==
    IF ~ValidRPCProviderKind(value)
    THEN [kind |-> kind, err |-> [kind |-> "unknown_rpc_kind", value |-> value]]
    ELSE [kind |-> value, err |-> NoErr]

----------------------------------------------------------------------------
(* Receipts, logs and the receipts trie root *)

\* a nil slice of receipts: a Go nil slice is a slice of length 0
NilReceipts == << >>

\* a nil *types.Receipt
NilReceipt == [isNil |-> TRUE]

\* a nil *big.Int block number
NilBlockNumber == -1

\* types.EmptyRootHash: the root of the empty trie
EmptyRootHash == << >>

\* types.DeriveSha over the consensus fields of the receipts, an ideal
\* (collision-free) commitment to the ordered list
DeriveSha(receipts) ==
    [i \in 1..Len(receipts) |->
        [CumulativeGasUsed |-> receipts[i].CumulativeGasUsed,
         LogData |-> [j \in 1..Len(receipts[i].Logs) |-> receipts[i].Logs[j].Data]]]

\* big.Int.Uint64 of a number that is not negative: its low 64 bits, the number
\* itself when it fits (64 bits scaled down to the width of GasModulus)
Uint64(x) == x % GasModulus

RECURSIVE checkLogs(_, _, _, _, _, _)
\* the inner loop of validateReceipts over r.Logs, from log j (1-based):
\* the first error, or NoErr with the log index after the last log
checkLogs(block, txHashes, i, logs, j, logIndex) ==
    IF j > Len(logs) THEN [err |-> NoErr, logIndex |-> logIndex]
    ELSE LET log == logs[j] IN
        IF log.Index # logIndex THEN
            [err |-> [kind |-> "log_index", log |-> logIndex, tx |-> i - 1, got |-> log.Index],
             logIndex |-> logIndex]
        ELSE IF log.TxIndex # i - 1 THEN
            [err |-> [kind |-> "log_tx_index", log |-> log.Index, got |-> log.TxIndex],
             logIndex |-> logIndex]
        ELSE IF log.BlockHash # block.Hash THEN
            [err |-> [kind |-> "log_block_hash", log |-> log.Index, got |-> log.BlockHash],
             logIndex |-> logIndex]
        ELSE IF log.BlockNumber # block.Number THEN
            [err |-> [kind |-> "log_block_number", log |-> log.Index, got |-> log.BlockNumber],
             logIndex |-> logIndex]
        ELSE IF log.TxHash # txHashes[i] THEN
            [err |-> [kind |-> "log_tx_hash", log |-> log.Index, got |-> log.TxHash],
             logIndex |-> logIndex]
        ELSE IF log.Removed THEN
            [err |-> [kind |-> "log_removed", log |-> log.Index], logIndex |-> logIndex]
        ELSE checkLogs(block, txHashes, i, logs, j + 1, logIndex + 1)

RECURSIVE checkReceipts_HashBeforeNumber(_, _, _, _, _, _)
\* the loop of validateReceipts with the block hash compared before the block number
checkReceipts_HashBeforeNumber(block, txHashes, receipts, i, logIndex, cumulativeGas) ==
    IF i > Len(receipts) THEN NoErr
    ELSE LET r == receipts[i] IN
        IF r = NilReceipt THEN [kind |-> "nil_receipt", tx |-> i - 1]
        ELSE IF r.TransactionIndex # i - 1 THEN
            [kind |-> "tx_index", tx |-> i - 1, got |-> r.TransactionIndex]
        ELSE IF r.BlockHash # block.Hash THEN
            [kind |-> "block_hash", tx |-> i - 1, got |-> r.BlockHash,
             expected |-> block.Hash]
        ELSE IF r.BlockNumber = NilBlockNumber THEN
            [kind |-> "nil_block_number", tx |-> i - 1, expected |-> block.Number]
        ELSE IF Uint64(r.BlockNumber) # block.Number THEN
            [kind |-> "block_number", tx |-> i - 1, got |-> r.BlockNumber,
             expected |-> block.Number]
        ELSE LET expected == (r.CumulativeGasUsed - cumulativeGas) % GasModulus IN
            IF r.GasUsed # expected THEN
                [kind |-> "gas_used", tx |-> i - 1, got |-> r.GasUsed, expected |-> expected]
            ELSE LET l == checkLogs(block, txHashes, i, r.Logs, 1, logIndex) IN
                IF l.err # NoErr THEN l.err
                ELSE checkReceipts_HashBeforeNumber(block, txHashes, receipts, i + 1,
                                                    l.logIndex, r.CumulativeGasUsed)

RECURSIVE checkReceipts_LogIndexRestarts(_, _, _, _, _, _)
\* the loop of validateReceipts with logIndex set to 0 for every receipt
checkReceipts_LogIndexRestarts(block, txHashes, receipts, i, logIndex, cumulativeGas) ==
    IF i > Len(receipts) THEN NoErr
    ELSE LET r == receipts[i] IN
        IF r = NilReceipt THEN [kind |-> "nil_receipt", tx |-> i - 1]
        ELSE IF r.TransactionIndex # i - 1 THEN
            [kind |-> "tx_index", tx |-> i - 1, got |-> r.TransactionIndex]
        ELSE IF r.BlockNumber = NilBlockNumber THEN
            [kind |-> "nil_block_number", tx |-> i - 1, expected |-> block.Number]
        ELSE IF Uint64(r.BlockNumber) # block.Number THEN
            [kind |-> "block_number", tx |-> i - 1, got |-> r.BlockNumber,
             expected |-> block.Number]
        ELSE IF r.BlockHash # block.Hash THEN
            [kind |-> "block_hash", tx |-> i - 1, got |-> r.BlockHash,
             expected |-> block.Hash]
        ELSE LET expected == (r.CumulativeGasUsed - cumulativeGas) % GasModulus IN
            IF r.GasUsed # expected THEN
                [kind |-> "gas_used", tx |-> i - 1, got |-> r.GasUsed, expected |-> expected]
            ELSE LET l == checkLogs(block, txHashes, i, r.Logs, 1, 0) IN
                IF l.err # NoErr THEN l.err
                ELSE checkReceipts_LogIndexRestarts(block, txHashes, receipts, i + 1,
                                                    l.logIndex, r.CumulativeGasUsed)

RECURSIVE checkReceipts(_, _, _, _, _, _)
\* the loop of validateReceipts over the receipts, from receipt i (1-based)
checkReceipts(block, txHashes, receipts, i, logIndex, cumulativeGas) ==
    IF i > Len(receipts) THEN NoErr
    ELSE LET r == receipts[i] IN
        IF r = NilReceipt THEN [kind |-> "nil_receipt", tx |-> i - 1]
        ELSE IF r.TransactionIndex # i - 1 THEN
            [kind |-> "tx_index", tx |-> i - 1, got |-> r.TransactionIndex]
        ELSE IF r.BlockNumber = NilBlockNumber THEN
            [kind |-> "nil_block_number", tx |-> i - 1, expected |-> block.Number]
        ELSE IF Uint64(r.BlockNumber) # block.Number THEN
            [kind |-> "block_number", tx |-> i - 1, got |-> r.BlockNumber,
             expected |-> block.Number]
        ELSE IF r.BlockHash # block.Hash THEN
            [kind |-> "block_hash", tx |-> i - 1, got |-> r.BlockHash,
             expected |-> block.Hash]
        ELSE LET expected == (r.CumulativeGasUsed - cumulativeGas) % GasModulus IN
            IF r.GasUsed # expected THEN
                [kind |-> "gas_used", tx |-> i - 1, got |-> r.GasUsed, expected |-> expected]
            ELSE LET l == checkLogs(block, txHashes, i, r.Logs, 1, logIndex) IN
                IF l.err # NoErr THEN l.err
                ELSE checkReceipts(block, txHashes, receipts, i + 1, l.logIndex,
                                   r.CumulativeGasUsed)

\* validateReceipts with the empty-root check made for every block
validateReceipts_EmptyCheckAlways(block, receiptHash, txHashes, receipts) ==
    IF Len(receipts) # Len(txHashes) THEN
        [kind |-> "receipts_count", got |-> Len(receipts), expected |-> Len(txHashes)]
    ELSE IF receiptHash # EmptyRootHash THEN
        [kind |-> "non_empty_root", got |-> receiptHash]
    ELSE LET e == checkReceipts(block, txHashes, receipts, 1, 0, 0) IN
        IF e # NoErr THEN e
        ELSE IF receiptHash # DeriveSha(receipts) THEN
            [kind |-> "receipt_root", expected |-> receiptHash,
             computed |-> DeriveSha(receipts)]
        ELSE NoErr

\* validateReceipts that trusts a list whose root matches
validateReceipts_RootFirst(block, receiptHash, txHashes, receipts) ==
    IF Len(receipts) # Len(txHashes) THEN
        [kind |-> "receipts_count", got |-> Len(receipts), expected |-> Len(txHashes)]
    ELSE IF Len(txHashes) = 0 /\ receiptHash # EmptyRootHash THEN
        [kind |-> "non_empty_root", got |-> receiptHash]
    ELSE IF /\ \A i \in 1..Len(receipts) : receipts[i] # NilReceipt
            /\ receiptHash = DeriveSha(receipts) THEN NoErr
    ELSE LET e == checkReceipts(block, txHashes, receipts, 1, 0, 0) IN
        IF e # NoErr THEN e
        ELSE [kind |-> "receipt_root", expected |-> receiptHash,
              computed |-> DeriveSha(receipts)]

\* validateReceipts that has nothing to check for a block without transactions
validateReceipts_EmptyAccepted(block, receiptHash, txHashes, receipts) ==
    IF Len(receipts) # Len(txHashes) THEN
        [kind |-> "receipts_count", got |-> Len(receipts), expected |-> Len(txHashes)]
    ELSE IF Len(txHashes) = 0 THEN NoErr
    ELSE LET e == checkReceipts(block, txHashes, receipts, 1, 0, 0) IN
        IF e # NoErr THEN e
        ELSE IF receiptHash # DeriveSha(receipts) THEN
            [kind |-> "receipt_root", expected |-> receiptHash,
             computed |-> DeriveSha(receipts)]
        ELSE NoErr

validateReceipts(block, receiptHash, txHashes, receipts) ==
    IF Len(receipts) # Len(txHashes) THEN
        [kind |-> "receipts_count", got |-> Len(receipts), expected |-> Len(txHashes)]
    ELSE IF Len(txHashes) = 0 /\ receiptHash # EmptyRootHash THEN
        [kind |-> "non_empty_root", got |-> receiptHash]
    ELSE LET e == checkReceipts(block, txHashes, receipts, 1, 0, 0) IN
        IF e # NoErr THEN e
        ELSE LET computed == DeriveSha(receipts) IN
            IF receiptHash # computed THEN
                [kind |-> "receipt_root", expected |-> receiptHash, computed |-> computed]
            ELSE NoErr

----------------------------------------------------------------------------
(* The chain the caller asks about, and what the RPC node can answer *)

\* eth.BlockID of the n-th block
Block(n) == [Hash |-> 100 + n, Number |-> n]

\* the blocks receipts are requested for: a small one and a large one
Blocks == {Block(1), Block(2)}

TxCountOf(block) == IF block.Number = 1 THEN SmallTxCount ELSE LargeTxCount

\* the transaction hashes of a block, which the caller passes as txHashes
TxHashesOf(block) == [i \in 1..TxCountOf(block) |-> 100 * block.Hash + i]

\* the receipts the chain holds for a block; the first two transactions log one event each
CanonicalReceipts(block) ==
    [i \in 1..TxCountOf(block) |->
        [TxHash |-> TxHashesOf(block)[i],
         TransactionIndex |-> i - 1,
         BlockNumber |-> block.Number,
         BlockHash |-> block.Hash,
         CumulativeGasUsed |-> i,
         GasUsed |-> 1,
         Logs |-> IF i <= 2
                  THEN << [Index |-> i - 1, TxIndex |-> i - 1, BlockHash |-> block.Hash,
                           BlockNumber |-> block.Number, TxHash |-> TxHashesOf(block)[i],
                           Removed |-> FALSE, Data |-> 10 * i] >>
                  ELSE << >>]]

\* the receipts root in the header of a block
ReceiptHashOf(block) == DeriveSha(CanonicalReceipts(block))

\* how well the node answers a request: completely, with the last receipt
\* missing, or with the first two receipts out of order
Variants == {"complete", "incomplete", "reordered"}

\* the body of a bulk JSON answer (an array of receipts)
JSONReceipts(block, variant) ==
    LET c == CanonicalReceipts(block) IN
    CASE variant = "incomplete" -> SubSeq(c, 1, Len(c) - 1)
      [] variant = "reordered" /\ Len(c) >= 2 ->
            [i \in 1..Len(c) |-> IF i = 1 THEN c[2] ELSE IF i = 2 THEN c[1] ELSE c[i]]
      [] OTHER -> c

\* the body of a debug_getRawReceipts answer: the consensus encoding of each receipt
RawReceipts(block, variant) ==
    LET c == JSONReceipts(block, variant) IN
    [i \in 1..Len(c) |->
        [CumulativeGasUsed |-> c[i].CumulativeGasUsed,
         LogData |-> [j \in 1..Len(c[i].Logs) |-> c[i].Logs[j].Data]]]

\* the answers to one eth_getTransactionReceipt per transaction hash, in the
\* order of txHashes: a receipt the node no longer has comes back as null
BatchReceipts(block, txHashes, variant) ==
    LET c == CanonicalReceipts(block) IN
    [i \in 1..Len(txHashes) |->
        IF variant = "incomplete" /\ i = Len(txHashes) THEN NilReceipt ELSE c[i]]

\* what the transport does during one FetchReceipts call: the error of its
\* calls (NoErr when they succeed) and the quality of the answer
RPCOutcomes == [err : {NoErr, ErrMethodNotFound, ErrTimeout}, variant : Variants]

\* rpcClient.CallContext: the error, and the decoded result when there is none
CallContext(rpc, method, body) ==
    [err |-> rpc.err,
     result |-> IF rpc.err = NoErr THEN body ELSE NilReceipts,
     attempts |-> <<method>>]

\* eth.DecodeRawReceipts: each raw receipt becomes a receipt tied to the
\* transaction hash at its position, with the derived fields filled in
DecodeRawReceipts(block, rawReceipts, txHashes) ==
    LET LogsBefore(i) ==
            LET RECURSIVE Count(_)
                Count(k) == IF k = 0 THEN 0 ELSE Len(rawReceipts[k].LogData) + Count(k - 1)
            IN Count(i - 1)
    IN [err |-> NoErr,
        result |->
          [i \in 1..Len(rawReceipts) |->
            [TxHash |-> txHashes[i],
             TransactionIndex |-> i - 1,
             BlockNumber |-> block.Number,
             BlockHash |-> block.Hash,
             CumulativeGasUsed |-> rawReceipts[i].CumulativeGasUsed,
             GasUsed |-> (rawReceipts[i].CumulativeGasUsed
                          - (IF i = 1 THEN 0 ELSE rawReceipts[i - 1].CumulativeGasUsed))
                         % GasModulus,
             Logs |-> [j \in 1..Len(rawReceipts[i].LogData) |->
                        [Index |-> LogsBefore(i) + j - 1, TxIndex |-> i - 1,
                         BlockHash |-> block.Hash, BlockNumber |-> block.Number,
                         TxHash |-> txHashes[i], Removed |-> FALSE,
                         Data |-> rawReceipts[i].LogData[j]]]]]]

----------------------------------------------------------------------------
(* caching.LRUCache: a sequence of entries, the least recently used first *)

CacheKeys(c) == {c[i].key : i \in 1..Len(c)}

CacheIndex(c, key) == CHOOSE i \in 1..Len(c) : c[i].key = key

CacheWithout(c, key) == SelectSeq(c, LAMBDA e : e.key # key)

\* cache.Get: the value and true on a hit, which also makes the entry the most recent
CacheGet(c, key) ==
    IF key \in CacheKeys(c)
    THEN LET e == c[CacheIndex(c, key)] IN
         [ok |-> TRUE, value |-> e.value, cache |-> Append(CacheWithout(c, key), e)]
    ELSE [ok |-> FALSE, value |-> NilReceipts, cache |-> c]

\* cache.Add: stores the value as the most recent entry and evicts the oldest
\* entries beyond the capacity
CacheAdd(c, key, value) ==
    LET added == Append(CacheWithout(c, key), [key |-> key, value |-> value]) IN
    IF Len(added) > CacheSize
    THEN SubSeq(added, Len(added) - CacheSize + 1, Len(added))
    ELSE added

----------------------------------------------------------------------------
(* BasicRPCReceiptsFetcher and RPCReceiptsFetcher *)

\* the RPCReceiptsFetcher as a value
Fetcher ==
    [provKind |-> provKind,
     availableReceiptMethods |-> availableReceiptMethods,
     lastMethodsReset |-> lastMethodsReset,
     methodResetDuration |-> methodResetDuration]

\* BasicRPCReceiptsFetcher.FetchReceipts: one request per transaction hash,
\* driven until the end of the sequence; the first error ends it with no result
BasicFetchReceipts(block, txHashes, rpc) ==
    IF rpc.err # NoErr
    THEN [err |-> rpc.err, result |-> NilReceipts, attempts |-> <<"eth_getTransactionReceipt">>]
    ELSE [err |-> NoErr, result |-> BatchReceipts(block, txHashes, rpc.variant),
          attempts |-> <<"eth_getTransactionReceipt">>]

\* PickReceiptsMethod that resets to the methods of kind any
PickReceiptsMethod_ResetsToAny(f, t, txCount) ==
    LET g == IF t - f.lastMethodsReset > f.methodResetDuration
             THEN [f EXCEPT !.availableReceiptMethods = AvailableReceiptsFetchingMethods(RPCKindAny),
                            !.lastMethodsReset = t]
             ELSE f
    IN [m |-> PickBestReceiptsFetchingMethod(g.provKind, g.availableReceiptMethods, txCount),
        f |-> g]

\* PickReceiptsMethod without the reset
PickReceiptsMethod_NeverResets(f, t, txCount) ==
    [m |-> PickBestReceiptsFetchingMethod(f.provKind, f.availableReceiptMethods, txCount),
     f |-> f]

\* PickReceiptsMethod that resets as soon as the interval has passed
PickReceiptsMethod_ResetAtInterval(f, t, txCount) ==
    LET g == IF t - f.lastMethodsReset >= f.methodResetDuration
             THEN [f EXCEPT !.availableReceiptMethods = AvailableReceiptsFetchingMethods(f.provKind),
                            !.lastMethodsReset = t]
             ELSE f
    IN [m |-> PickBestReceiptsFetchingMethod(g.provKind, g.availableReceiptMethods, txCount),
        f |-> g]

\* RPCReceiptsFetcher.PickReceiptsMethod at time t: the method, and the fetcher after
\* the reset check
PickReceiptsMethod(f, t, txCount) ==
    LET g == IF t - f.lastMethodsReset > f.methodResetDuration
             THEN [f EXCEPT !.availableReceiptMethods = AvailableReceiptsFetchingMethods(f.provKind),
                            !.lastMethodsReset = t]
             ELSE f
    IN [m |-> PickBestReceiptsFetchingMethod(g.provKind, g.availableReceiptMethods, txCount),
        f |-> g]

\* OnReceiptsMethodErr that never clears a bit
OnReceiptsMethodErr_NeverClears(f, m, err) == f

\* OnReceiptsMethodErr that clears the bit whatever the error is
OnReceiptsMethodErr_AlwaysClears(f, m, err) ==
    [f EXCEPT !.availableReceiptMethods = BitAndNot(f.availableReceiptMethods, m)]

\* OnReceiptsMethodErr that toggles the bit (^= for &^=)
OnReceiptsMethodErr_Toggles(f, m, err) ==
    IF unusableMethod(err)
    THEN [f EXCEPT !.availableReceiptMethods =
                        BitOr(f.availableReceiptMethods, m) - BitAnd(f.availableReceiptMethods, m)]
    ELSE f

\* OnReceiptsMethodErr that keeps the failed bit and clears the others
OnReceiptsMethodErr_KeepsOnlyFailed(f, m, err) ==
    IF unusableMethod(err)
    THEN [f EXCEPT !.availableReceiptMethods = BitAnd(f.availableReceiptMethods, m)]
    ELSE f

\* RPCReceiptsFetcher.OnReceiptsMethodErr: the fetcher after method m failed with err
OnReceiptsMethodErr(f, m, err) ==
    IF unusableMethod(err)
    THEN [f EXCEPT !.availableReceiptMethods = BitAndNot(f.availableReceiptMethods, m)]
    ELSE f

\* the RPC method the switch of RPCReceiptsFetcher.FetchReceipts issues for method m
MethodName(m) ==
    CASE m = EthGetTransactionReceiptBatch -> "eth_getTransactionReceipt"
      [] m = AlchemyGetTransactionReceipts -> "alchemy_getTransactionReceipts"
      [] m = DebugGetRawReceipts -> "debug_getRawReceipts"
      [] m = ParityGetBlockReceipts -> "parity_getBlockReceipts"
      [] m = EthGetBlockReceipts -> "eth_getBlockReceipts"
      [] m = ErigonGetBlockReceiptsByBlockHash -> "erigon_getBlockReceiptsByBlockHash"
      [] OTHER -> "unknown"

\* the end of the DebugGetRawReceipts case without the comparison of the two counts
DecodeUnchecked(c, block, txHashes, d) ==
    IF c.err # NoErr THEN c
    ELSE [err |-> d.err, result |-> d.result, attempts |-> c.attempts]

\* the end of the DebugGetRawReceipts case: c is the outcome of the call
DecodeChecked(c, block, txHashes, d) ==
    IF c.err # NoErr THEN c
    ELSE IF Len(c.result) = Len(txHashes)
    THEN [err |-> d.err, result |-> d.result, attempts |-> c.attempts]
    ELSE [err |-> [kind |-> "raw_receipts_count", got |-> Len(c.result),
                   expected |-> Len(txHashes)],
          result |-> NilReceipts, attempts |-> c.attempts]

\* the DebugGetRawReceipts case of RPCReceiptsFetcher.FetchReceipts
GetRawReceipts(block, txHashes, rpc) ==
    DecodeChecked(CallContext(rpc, "debug_getRawReceipts", RawReceipts(block, rpc.variant)),
                  block, txHashes,
                  DecodeRawReceipts(block, RawReceipts(block, rpc.variant), txHashes))

\* the switch of RPCReceiptsFetcher.FetchReceipts on the selected method m
Dispatch(m, block, txHashes, rpc) ==
    CASE m = EthGetTransactionReceiptBatch -> BasicFetchReceipts(block, txHashes, rpc)
      [] m = AlchemyGetTransactionReceipts ->
            CallContext(rpc, "alchemy_getTransactionReceipts", JSONReceipts(block, rpc.variant))
      [] m = DebugGetRawReceipts -> GetRawReceipts(block, txHashes, rpc)
      [] m = ParityGetBlockReceipts ->
            CallContext(rpc, "parity_getBlockReceipts", JSONReceipts(block, rpc.variant))
      [] m = EthGetBlockReceipts ->
            CallContext(rpc, "eth_getBlockReceipts", JSONReceipts(block, rpc.variant))
      [] m = ErigonGetBlockReceiptsByBlockHash ->
            CallContext(rpc, "erigon_getBlockReceiptsByBlockHash", JSONReceipts(block, rpc.variant))
      [] OTHER -> [err |-> [kind |-> "unknown_method", method |-> m],
                   result |-> NilReceipts, attempts |-> << >>]

\* the end of RPCReceiptsFetcher.FetchReceipts: p is the selection, r the outcome
\* of the dispatch
FetchReceiptsReturn(p, r) ==
    IF r.err # NoErr
    THEN [result |-> NilReceipts, err |-> r.err, method |-> p.m, attempts |-> r.attempts,
          f |-> OnReceiptsMethodErr(p.f, p.m, r.err)]
    ELSE [result |-> r.result, err |-> NoErr, method |-> p.m, attempts |-> r.attempts,
          f |-> p.f]

\* FetchReceipts that, after a failure, tries the next best method within the same call
RetryReturn(p, r, q, block, txHashes, rpc) ==
    IF r.err = NoErr THEN FetchReceiptsReturn(p, r)
    ELSE [FetchReceiptsReturn(p, r) EXCEPT
            !.attempts = r.attempts \o Dispatch(q.m, block, txHashes, rpc).attempts]

RetryWith(p, r, block, txHashes, rpc) ==
    RetryReturn(p, r,
                [m |-> PickBestReceiptsFetchingMethod(p.f.provKind,
                          BitAndNot(p.f.availableReceiptMethods, p.m), Len(txHashes))],
                block, txHashes, rpc)

FetchReceiptsWith_Retry(p, block, txHashes, rpc) ==
    RetryWith(p, Dispatch(p.m, block, txHashes, rpc), block, txHashes, rpc)

\* the switch of RPCReceiptsFetcher.FetchReceipts and what follows it
FetchReceiptsWith(p, block, txHashes, rpc) ==
    FetchReceiptsReturn(p, Dispatch(p.m, block, txHashes, rpc))

\* RPCReceiptsFetcher.FetchReceipts at time t against a transport that behaves as rpc:
\* the result, the error, the method tried, the RPC methods issued, the fetcher after
RPCFetchReceipts(f, t, block, txHashes, rpc) ==
    FetchReceiptsWith(PickReceiptsMethod(f, t, Len(txHashes)), block, txHashes, rpc)

----------------------------------------------------------------------------
(* CachingReceiptsProvider *)

\* CachingReceiptsProvider.FetchReceipts that does not look into the cache first
CachingFetchReceipts_IgnoresHit(c, block, txHashes, inner) ==
    IF inner.err # NoErr
    THEN [result |-> NilReceipts, err |-> inner.err, cache |-> c, innerCalled |-> TRUE]
    ELSE [result |-> inner.result, err |-> NoErr,
          cache |-> CacheAdd(c, block.Hash, inner.result), innerCalled |-> TRUE]

\* CachingReceiptsProvider.FetchReceipts that stores the inner result before it
\* looks at the error
CachingFetchReceipts_CachesOnError(c, block, txHashes, inner) ==
    LET g == CacheGet(c, block.Hash) IN
    IF g.ok
    THEN [result |-> g.value, err |-> NoErr, cache |-> g.cache, innerCalled |-> FALSE]
    ELSE [result |-> IF inner.err # NoErr THEN NilReceipts ELSE inner.result,
          err |-> inner.err,
          cache |-> CacheAdd(g.cache, block.Hash, inner.result), innerCalled |-> TRUE]

\* CachingReceiptsProvider.FetchReceipts on cache c; inner is what the inner
\* fetcher does if it is called
CachingFetchReceipts(c, block, txHashes, inner) ==
    LET g == CacheGet(c, block.Hash) IN
    IF g.ok
    THEN [result |-> g.value, err |-> NoErr, cache |-> g.cache, innerCalled |-> FALSE]
    ELSE IF inner.err # NoErr
    THEN [result |-> NilReceipts, err |-> inner.err, cache |-> g.cache, innerCalled |-> TRUE]
    ELSE [result |-> inner.result, err |-> NoErr,
          cache |-> CacheAdd(g.cache, block.Hash, inner.result), innerCalled |-> TRUE]

\* the end of CachingReceiptsProvider.FetchReceipts that keeps the entry another
\* call has stored meanwhile, and returns it
CachingAfterMiss_FirstWriteWins(c, block, inner) ==
    IF inner.err # NoErr
    THEN [result |-> NilReceipts, err |-> inner.err, cache |-> c]
    ELSE IF block.Hash \in CacheKeys(c)
    THEN [result |-> CacheGet(c, block.Hash).value, err |-> NoErr,
          cache |-> CacheGet(c, block.Hash).cache]
    ELSE [result |-> inner.result, err |-> NoErr,
          cache |-> CacheAdd(c, block.Hash, inner.result)]

\* the end of CachingReceiptsProvider.FetchReceipts that stores what the inner
\* fetcher returned before it looks at the error
CachingAfterMiss_CachesOnError(c, block, inner) ==
    [result |-> IF inner.err # NoErr THEN NilReceipts ELSE inner.result,
     err |-> inner.err,
     cache |-> CacheAdd(c, block.Hash, inner.result)]

\* CachingReceiptsProvider.FetchReceipts from the return of the inner fetcher on,
\* on the cache c as it is by then
CachingAfterMiss(c, block, inner) ==
    IF inner.err # NoErr
    THEN [result |-> NilReceipts, err |-> inner.err, cache |-> c]
    ELSE [result |-> inner.result, err |-> NoErr,
          cache |-> CacheAdd(c, block.Hash, inner.result)]

\* CachedReceipts that remembers a miss as an entry without receipts
CachedReceipts_StoresMiss(c, blockHash) ==
    IF blockHash \in CacheKeys(c) THEN CacheGet(c, blockHash)
    ELSE [ok |-> FALSE, value |-> NilReceipts, cache |-> CacheAdd(c, blockHash, NilReceipts)]

\* CachingReceiptsProvider.CachedReceipts
CachedReceipts(c, blockHash) == CacheGet(c, blockHash)

----------------------------------------------------------------------------
(* The state machine *)

\* ret before any call
NoCall ==
    [op |-> "none", block |-> Block(0), txHashes |-> << >>, result |-> NilReceipts,
     err |-> NoErr, found |-> FALSE, innerCalled |-> FALSE, method |-> 0,
     attempts |-> << >>, innerErr |-> NoErr, innerResult |-> NilReceipts]

\* pick when PickBestReceiptsFetchingMethod is not called directly
NoPick == [kind |-> RPCKindBasic, available |-> 0, txCount |-> 0, result |-> 0]

\* val when validateReceipts is not called directly
NoVal ==
    [block |-> Block(0), txHashes |-> << >>, base |-> NilReceipts, receipts |-> NilReceipts,
     change |-> [field |-> "none", tx |-> 0, log |-> 0, to |-> 0],
     second |-> [field |-> "none", tx |-> 0, log |-> 0, to |-> 0],
     receiptHash |-> EmptyRootHash, err |-> NoErr, done |-> FALSE]

\* flag when no RPCProviderKind flag is parsed
NoFlag == [op |-> "none", kind |-> "", value |-> "", err |-> NoErr, asked |-> "", methods |-> 0]

\* inflight when no call of the fetcher is between its pick and its request
NoInflight == [active |-> FALSE, block |-> Block(0), m |-> 0, restored |-> FALSE]

\* the callers whose FetchReceipts calls may overlap
Callers == {"a", "b"}

\* a caller that is in no call
Idle ==
    [pc |-> "idle", block |-> Block(0), due |-> FALSE, t |-> 0, m |-> 0, tmp |-> 0,
     err |-> NoErr, result |-> NilReceipts]

\* calls when no caller is in a call
NoCalls == [c \in Callers |-> Idle]

\* basic when BasicRPCReceiptsFetcher is not called
NoBasic ==
    [pc |-> "none", n |-> 0, batch |-> 1, fetched |-> 0, steps |-> 0, last |-> "none",
     err |-> NoErr, result |-> NilReceipts]

\* NewCachingRPCReceiptsProvider at time 0, for every configuration
Init ==
    /\ cache = << >>
    /\ provKind \in RPCProviderKinds
    /\ availableReceiptMethods = AvailableReceiptsFetchingMethods(provKind)
    /\ now = 0
    /\ lastMethodsReset = now
    /\ methodResetDuration \in 1..MaxResetDuration
    /\ ret = NoCall
    /\ pick = NoPick
    /\ val = NoVal
    /\ flag = NoFlag
    /\ inflight = NoInflight
    /\ calls = NoCalls
    /\ tried = << >>
    /\ basic = NoBasic

\* time passes
Tick ==
    /\ now < MaxTime
    /\ now' = now + 1
    /\ UNCHANGED <<cache, fetcherVars, ret, pick, val, flag, inflight, calls, tried, basic>>

\* the fetcher after a call of the caching provider
FetcherAfter(f, inner, out) == IF out.innerCalled THEN inner.f ELSE f

\* what a call of the caching provider leaves for its caller to see
Returned(block, txHashes, inner, out) ==
    [op |-> "FetchReceipts", block |-> block, txHashes |-> txHashes,
     result |-> out.result, err |-> out.err, found |-> FALSE,
     innerCalled |-> out.innerCalled,
     method |-> IF out.innerCalled THEN inner.method ELSE 0,
     attempts |-> IF out.innerCalled THEN inner.attempts ELSE << >>,
     innerErr |-> IF out.innerCalled THEN inner.err ELSE NoErr,
     innerResult |-> IF out.innerCalled THEN inner.result ELSE NilReceipts]

\* the state after a call of the caching provider
Finish(f, out, r) ==
    /\ cache' = out.cache
    /\ provKind' = f.provKind
    /\ availableReceiptMethods' = f.availableReceiptMethods
    /\ lastMethodsReset' = f.lastMethodsReset
    /\ methodResetDuration' = f.methodResetDuration
    /\ ret' = r
    /\ UNCHANGED <<now, pick, val, flag, inflight, calls, tried, basic>>

FetchWith(block, txHashes, inner, out) ==
    Finish(FetcherAfter(Fetcher, inner, out), out, Returned(block, txHashes, inner, out))

FetchInner(block, txHashes, inner) ==
    FetchWith(block, txHashes, inner, CachingFetchReceipts(cache, block, txHashes, inner))

\* a caller fetches the receipts of a block through the caching provider
FetchReceipts(block) ==
    \E rpc \in RPCOutcomes :
        FetchInner(block, TxHashesOf(block),
                   RPCFetchReceipts(Fetcher, now, block, TxHashesOf(block), rpc))

\* a caller probes the cache
ProbeCache(block) ==
    LET g == CachedReceipts(cache, block.Hash) IN
    /\ cache' = g.cache
    /\ ret' = [NoCall EXCEPT !.op = "CachedReceipts", !.block = block,
                             !.result = g.value, !.found = g.ok]
    /\ UNCHANGED <<fetcherVars, now, pick, val, flag, inflight, calls, tried, basic>>

Next ==
    \/ Tick
    \/ \E block \in Blocks : FetchReceipts(block)
    \/ \E block \in Blocks : ProbeCache(block)

Spec == Init /\ [][Next]_vars

----------------------------------------------------------------------------
(* Direct calls of PickBestReceiptsFetchingMethod, for every argument in the bounds *)

PickKinds == RPCProviderKinds \cup {UnknownKind}

PickInit ==
    /\ cache = << >>
    /\ provKind = RPCKindBasic
    /\ availableReceiptMethods = AvailableReceiptsFetchingMethods(provKind)
    /\ now = 0
    /\ lastMethodsReset = 0
    /\ methodResetDuration = 1
    /\ ret = NoCall
    /\ pick \in [kind : PickKinds, available : 0..MaxAvailable, txCount : 0..MaxTxCount,
                 result : {0}]
    /\ val = NoVal
    /\ flag = NoFlag
    /\ inflight = NoInflight
    /\ calls = NoCalls
    /\ tried = << >>
    /\ basic = NoBasic

PickCall ==
    /\ pick.result = 0
    /\ pick' = [pick EXCEPT !.result =
                    PickBestReceiptsFetchingMethod(pick.kind, pick.available, pick.txCount)]
    /\ UNCHANGED <<cache, fetcherVars, now, ret, val, flag, inflight, calls, tried, basic>>

PickNext == PickCall

PickSpec == PickInit /\ [][PickNext]_vars

----------------------------------------------------------------------------
(* Direct calls of validateReceipts: a receipt list that a node holding the *)
(* block would return, one field of it changed at most, and an expected root *)

\* the block of a direct call
ValBlock == Block(1)

\* the transaction hashes of a direct call for n transactions
ValTxHashes(n) == [i \in 1..n |-> 100 * ValBlock.Hash + i]

RECURSIVE SumTo(_, _)
\* s[1] + ... + s[i]
SumTo(s, i) == IF i = 0 THEN 0 ELSE s[i] + SumTo(s, i - 1)

\* the receipts of a block whose i-th transaction used gas[i] and logged nlogs[i] events
MakeReceipts(block, txHashes, gas, nlogs) ==
    [i \in 1..Len(txHashes) |->
        [TxHash |-> txHashes[i],
         TransactionIndex |-> i - 1,
         BlockNumber |-> block.Number,
         BlockHash |-> block.Hash,
         CumulativeGasUsed |-> SumTo(gas, i) % GasModulus,
         GasUsed |-> gas[i],
         Logs |-> [j \in 1..nlogs[i] |->
                    [Index |-> SumTo(nlogs, i - 1) + j - 1,
                     TxIndex |-> i - 1,
                     BlockHash |-> block.Hash,
                     BlockNumber |-> block.Number,
                     TxHash |-> txHashes[i],
                     Removed |-> FALSE,
                     Data |-> 10 * i + j]]]]

\* the gas one transaction is reported to have used: little, or nearly the
\* largest uint64
GasValues == 0..MaxGas \cup {GasModulus - 1}

\* the lists a direct call starts from
BaseLists ==
    UNION {{MakeReceipts(ValBlock, ValTxHashes(n), gas, nlogs) :
                gas \in [1..n -> GasValues], nlogs \in [1..n -> 0..MaxLogs]} :
           n \in 0..MaxReceipts}

\* the values a numeric field may be changed to
OtherValues(cur, candidates) == candidates \ {cur}

\* the single changes of a receipt's own fields, of receipt i of the list
ReceiptChanges(receipts, i) ==
    LET r == receipts[i]
        C(field, values) == {[field |-> field, tx |-> i, log |-> 0, to |-> v] : v \in values}
    IN  C("TransactionIndex", OtherValues(r.TransactionIndex, 0..Len(receipts)))
        \cup C("BlockNumber", OtherValues(r.BlockNumber, {NilBlockNumber, 1, 2,
                                                          r.BlockNumber + GasModulus}))
        \cup C("BlockHash", OtherValues(r.BlockHash, {Block(1).Hash, Block(2).Hash}))
        \cup C("CumulativeGasUsed",
               {(r.CumulativeGasUsed + 1) % GasModulus,
                (r.CumulativeGasUsed + GasModulus - 1) % GasModulus})
        \cup C("GasUsed", {(r.GasUsed + 1) % GasModulus,
                           (r.GasUsed + GasModulus - 1) % GasModulus})
        \cup C("TxHash", {0})
        \cup C("nil", {0})
        \cup (IF i < Len(receipts) THEN C("swap", {i + 1}) ELSE {})

\* the single changes of the fields of log j of receipt i
LogChanges(receipts, i, j) ==
    LET l == receipts[i].Logs[j]
        C(field, values) == {[field |-> field, tx |-> i, log |-> j, to |-> v] : v \in values}
    IN  C("Index", OtherValues(l.Index, 0..(MaxReceipts * MaxLogs)))
        \cup C("TxIndex", OtherValues(l.TxIndex, 0..Len(receipts)))
        \cup C("BlockHash", OtherValues(l.BlockHash, {Block(1).Hash, Block(2).Hash}))
        \cup C("BlockNumber", OtherValues(l.BlockNumber, {1, 2}))
        \cup C("TxHash", {0})
        \cup C("Removed", {1})
        \cup C("Data", {0})

\* every single change of a list without nil receipts, the loss of its last receipt included
Changes(receipts) ==
    UNION {ReceiptChanges(receipts, i) : i \in 1..Len(receipts)}
    \cup UNION {LogChanges(receipts, i, j) :
                    <<i, j>> \in {p \in (1..Len(receipts)) \X (1..MaxLogs + 1) :
                                    p[2] <= Len(receipts[p[1]].Logs)}}
    \cup (IF Len(receipts) > 0
            THEN {[field |-> "drop", tx |-> Len(receipts), log |-> 0, to |-> 0]} ELSE {})

\* the list after change c
Apply(receipts, c) ==
    IF c.field = "drop" THEN SubSeq(receipts, 1, Len(receipts) - 1)
    ELSE IF c.field = "nil" THEN [receipts EXCEPT ![c.tx] = NilReceipt]
    ELSE IF c.field = "swap"
        THEN [receipts EXCEPT ![c.tx] = receipts[c.to], ![c.to] = receipts[c.tx]]
    ELSE IF c.log = 0 THEN [receipts EXCEPT ![c.tx][c.field] = c.to]
    ELSE IF c.field = "Removed" THEN [receipts EXCEPT ![c.tx].Logs[c.log].Removed = TRUE]
    ELSE [receipts EXCEPT ![c.tx].Logs[c.log][c.field] = c.to]

\* a root that commits to none of the lists
OtherRoot == <<[CumulativeGasUsed |-> GasModulus, LogData |-> << >>]>>

\* the expected roots a direct call is made with
Roots(v) ==
    {DeriveSha(v.base), EmptyRootHash, OtherRoot}
    \cup (IF \A i \in 1..Len(v.receipts) : v.receipts[i] # NilReceipt
            THEN {DeriveSha(v.receipts)} ELSE {})

ValidateInit ==
    /\ cache = << >>
    /\ provKind = RPCKindBasic
    /\ availableReceiptMethods = AvailableReceiptsFetchingMethods(provKind)
    /\ now = 0
    /\ lastMethodsReset = 0
    /\ methodResetDuration = 1
    /\ ret = NoCall
    /\ pick = NoPick
    /\ val \in {[NoVal EXCEPT !.block = ValBlock, !.txHashes = ValTxHashes(Len(l)),
                              !.base = l, !.receipts = l] : l \in BaseLists}
    /\ flag = NoFlag
    /\ inflight = NoInflight
    /\ calls = NoCalls
    /\ tried = << >>
    /\ basic = NoBasic

\* the node's answer differs from the block's receipts in one place
Change ==
    /\ ~val.done
    /\ val.change.field = "none"
    /\ \E c \in Changes(val.receipts) :
        val' = [val EXCEPT !.change = c, !.receipts = Apply(val.receipts, c)]
    /\ UNCHANGED <<cache, fetcherVars, now, ret, pick, flag, inflight, calls, tried, basic>>

\* validateReceipts is called
Validate ==
    /\ ~val.done
    /\ \E root \in Roots(val) :
        val' = [val EXCEPT !.receiptHash = root, !.done = TRUE,
                           !.err = validateReceipts(val.block, root, val.txHashes,
                                                    val.receipts)]
    /\ UNCHANGED <<cache, fetcherVars, now, ret, pick, flag, inflight, calls, tried, basic>>

ValidateNext == Change \/ Validate

ValidateSpec == ValidateInit /\ [][ValidateNext]_vars

----------------------------------------------------------------------------
(* Direct calls of validateReceipts for an answer that differs from the     *)
(* block's receipts in two places at most, or has a receipt too many        *)

\* a receipt the node adds to its answer
ExtraReceipt == MakeReceipts(ValBlock, ValTxHashes(1), <<1>>, <<0>>)[1]

\* the lists such a call starts from: none for a block without transactions, and
\* for a full block one receipt per transaction, each with one unit of gas and
\* as many logs as a receipt has at most
OrderLists ==
    {MakeReceipts(ValBlock, ValTxHashes(n), [i \in 1..n |-> 1], [i \in 1..n |-> MaxLogs]) :
        n \in {0, MaxReceipts}}

\* the single changes of a list that may hold nil receipts already, and the
\* addition of a receipt
OrderChanges(receipts) ==
    UNION {ReceiptChanges(receipts, i) :
                i \in {k \in 1..Len(receipts) : receipts[k] # NilReceipt}}
    \cup UNION {LogChanges(receipts, p[1], p[2]) :
                    p \in {q \in (1..Len(receipts)) \X (1..MaxLogs + 1) :
                             /\ receipts[q[1]] # NilReceipt
                             /\ q[2] <= Len(receipts[q[1]].Logs)}}
    \cup (IF Len(receipts) > 0
            THEN {[field |-> "drop", tx |-> Len(receipts), log |-> 0, to |-> 0]} ELSE {})
    \cup {[field |-> "extra", tx |-> Len(receipts) + 1, log |-> 0, to |-> 0]}

\* the list after change c
OrderApply(receipts, c) ==
    IF c.field = "extra" THEN Append(receipts, ExtraReceipt) ELSE Apply(receipts, c)

OrderInit ==
    /\ cache = << >>
    /\ provKind = RPCKindBasic
    /\ availableReceiptMethods = AvailableReceiptsFetchingMethods(provKind)
    /\ now = 0
    /\ lastMethodsReset = 0
    /\ methodResetDuration = 1
    /\ ret = NoCall
    /\ pick = NoPick
    /\ val \in {[NoVal EXCEPT !.block = ValBlock, !.txHashes = ValTxHashes(Len(l)),
                              !.base = l, !.receipts = l] : l \in OrderLists}
    /\ flag = NoFlag
    /\ inflight = NoInflight
    /\ calls = NoCalls
    /\ tried = << >>
    /\ basic = NoBasic

\* the node's answer differs from the block's receipts in a first place
OrderChange ==
    /\ ~val.done
    /\ val.change.field = "none"
    /\ \E c \in OrderChanges(val.receipts) :
        val' = [val EXCEPT !.change = c, !.receipts = OrderApply(val.receipts, c)]
    /\ UNCHANGED <<cache, fetcherVars, now, ret, pick, flag, inflight, calls, tried, basic>>

\* the answer differs in a second place
OrderChangeAgain ==
    /\ ~val.done
    /\ val.change.field # "none"
    /\ val.second.field = "none"
    /\ \E c \in OrderChanges(val.receipts) :
        val' = [val EXCEPT !.second = c, !.receipts = OrderApply(val.receipts, c)]
    /\ UNCHANGED <<cache, fetcherVars, now, ret, pick, flag, inflight, calls, tried, basic>>

OrderNext == OrderChange \/ OrderChangeAgain \/ Validate

OrderSpec == OrderInit /\ [][OrderNext]_vars

----------------------------------------------------------------------------
(* An RPCProviderKind flag: Set parses strings into it, and the registry is *)
(* asked for the methods of kinds, recognised or not                        *)

\* the strings given to Set and the kinds the registry is asked about
FlagValues == RPCProviderKinds \cup {UnknownKind, "", "Alchemy", "alchemy ", "geth"}

FlagInit ==
    /\ cache = << >>
    /\ provKind = RPCKindBasic
    /\ availableReceiptMethods = AvailableReceiptsFetchingMethods(provKind)
    /\ now = 0
    /\ lastMethodsReset = 0
    /\ methodResetDuration = 1
    /\ ret = NoCall
    /\ pick = NoPick
    /\ val = NoVal
    /\ flag = NoFlag
    /\ inflight = NoInflight
    /\ calls = NoCalls
    /\ tried = << >>
    /\ basic = NoBasic

\* the state after Set(value) returned r
SetReturn(value, r) ==
    /\ flag' = [flag EXCEPT !.op = "Set", !.kind = r.kind, !.value = value, !.err = r.err]
    /\ UNCHANGED <<cache, fetcherVars, now, ret, pick, val, inflight, calls, tried, basic>>

\* kind.Set(value) on the flag
SetKind(value) == SetReturn(value, Set(flag.kind, value))

\* AvailableReceiptsFetchingMethods(kind) is called
Lookup(kind) ==
    /\ flag' = [flag EXCEPT !.op = "Lookup", !.asked = kind,
                            !.methods = AvailableReceiptsFetchingMethods(kind)]
    /\ UNCHANGED <<cache, fetcherVars, now, ret, pick, val, inflight, calls, tried, basic>>

FlagNext ==
    \/ \E value \in FlagValues : SetKind(value)
    \/ \E kind \in FlagValues : Lookup(kind)

FlagSpec == FlagInit /\ [][FlagNext]_vars

----------------------------------------------------------------------------
(* The adaptive fetcher called directly, again and again, over unbounded time. *)
(* A call is two steps, the selection (with the reset check) and the request   *)
(* with what follows it. Only now - lastMethodsReset matters to the fetcher,   *)
(* so once the clock has reached MaxTime the origin of time moves instead.     *)

\* the fetcher's fields become those of f
SetFetcher(f) ==
    /\ provKind' = f.provKind
    /\ availableReceiptMethods' = f.availableReceiptMethods
    /\ lastMethodsReset' = f.lastMethodsReset
    /\ methodResetDuration' = f.methodResetDuration

\* time passes
LiveTick ==
    /\ IF now < MaxTime
        THEN now' = now + 1 /\ UNCHANGED lastMethodsReset
        ELSE now' = now /\ lastMethodsReset' = IF lastMethodsReset > 0
                                                  THEN lastMethodsReset - 1 ELSE 0
    /\ UNCHANGED <<cache, provKind, availableReceiptMethods, methodResetDuration, ret, pick,
                   val, flag, inflight, calls, tried, basic>>

\* the state after PickReceiptsMethod returned p in a call for the block
Picked(block, p) ==
    /\ SetFetcher(p.f)
    /\ inflight' = [active |-> TRUE, block |-> block, m |-> p.m,
                    restored |-> /\ availableReceiptMethods
                                        # AvailableReceiptsFetchingMethods(provKind)
                                 /\ p.f.availableReceiptMethods
                                        = AvailableReceiptsFetchingMethods(provKind)]
    /\ UNCHANGED <<cache, now, ret, pick, val, flag, calls, tried, basic>>

\* FetchReceipts of the fetcher begins: m := f.PickReceiptsMethod(len(txHashes))
StartFetch(block) ==
    /\ ~inflight.active
    /\ Picked(block, PickReceiptsMethod(Fetcher, now, TxCountOf(block)))

\* the state after the request of the call in progress came back as out
Ended(out) ==
    /\ SetFetcher(out.f)
    /\ inflight' = [inflight EXCEPT !.active = FALSE]
    /\ UNCHANGED <<cache, now, ret, pick, val, flag, calls, tried, basic>>

\* FetchReceipts of the fetcher ends: the request, and OnReceiptsMethodErr if it failed
EndFetch ==
    /\ inflight.active
    /\ \E rpc \in RPCOutcomes :
        Ended(FetchReceiptsWith([m |-> inflight.m, f |-> Fetcher], inflight.block,
                                TxHashesOf(inflight.block), rpc))

LiveNext ==
    \/ LiveTick
    \/ \E block \in Blocks : StartFetch(block)
    \/ EndFetch

\* a step in which a call begins: the steps of StartFetch, and no other step of
\* LiveNext
Begins ==
    /\ ~inflight.active
    /\ inflight' \in [active : {TRUE}, block : Blocks, m : KnownMethods, restored : BOOLEAN]
    /\ availableReceiptMethods' \in 0..MaxAvailable
    /\ lastMethodsReset' \in {lastMethodsReset, now}
    /\ UNCHANGED <<cache, provKind, methodResetDuration, now, ret, pick, val, flag,
                   calls, tried, basic>>

\* a step in which the call in progress returns: the steps of EndFetch, and no
\* other step of LiveNext
Returns ==
    /\ inflight.active
    /\ inflight' = [inflight EXCEPT !.active = FALSE]
    /\ availableReceiptMethods' \in
            {availableReceiptMethods, BitAndNot(availableReceiptMethods, inflight.m)}
    /\ UNCHANGED <<cache, provKind, lastMethodsReset, methodResetDuration, now, ret, pick,
                   val, flag, calls, tried, basic>>

\* time keeps advancing, FetchReceipts keeps being called, and every call returns
LiveSpec ==
    /\ Init
    /\ [][LiveNext]_vars
    /\ WF_vars(LiveTick)
    /\ WF_vars(Begins)
    /\ WF_vars(Returns)

----------------------------------------------------------------------------
(* The adaptive fetcher against a node that rejects every bulk method as *)
(* unusable: calls one after the other, no time passing, so no reset     *)

\* what the node answers to a request of method m
RejectingOutcomes(m) ==
    IF m = EthGetTransactionReceiptBatch THEN RPCOutcomes
    ELSE {[err |-> ErrMethodNotFound, variant |-> "complete"]}

DegradeInit ==
    /\ Init

\* the state after a call that returned out
Degraded(out) ==
    /\ SetFetcher(out.f)
    /\ tried' = Append(tried, out.method)
    /\ UNCHANGED <<cache, now, ret, pick, val, flag, inflight, calls, basic>>

\* the request of a call whose selection is p, and what follows it
DegradeWith(p, block) ==
    \E rpc \in RejectingOutcomes(p.m) :
        Degraded(FetchReceiptsWith(p, block, TxHashesOf(block), rpc))

\* a FetchReceipts call of the fetcher
DegradeCall(block) ==
    /\ Len(tried) < MaxCalls
    /\ DegradeWith(PickReceiptsMethod(Fetcher, now, TxCountOf(block)), block)

DegradeNext == \E block \in Blocks : DegradeCall(block)

DegradeSpec == DegradeInit /\ [][DegradeNext]_vars

----------------------------------------------------------------------------
(* BasicRPCReceiptsFetcher.FetchReceipts step by step: the loop around the  *)
(* Fetch of the iterative batch call, which requests the next maxBatchSize  *)
(* receipts at most and signals io.EOF once none is left                    *)

\* what one Fetch of the batch call may return: io.EOF when nothing is left to
\* request, else nil after the next batch was fetched, or the error of the batch
IterFetch(b) ==
    IF b.fetched = b.n THEN {[kind |-> "EOF"]}
    ELSE {NoErr, ErrTimeout, ErrMethodNotFound}

\* the requests completed after a Fetch that returned err
IterFetched(b, err) ==
    IF err = NoErr
    THEN (IF b.fetched + b.batch < b.n THEN b.fetched + b.batch ELSE b.n)
    ELSE b.fetched

\* Result of the batch call: the receipts fetched so far, in the order of txHashes
IterResult(b) == [i \in 1..b.fetched |-> i]

\* the loop that tries the batch again after an error
BasicLoop_Retries(b, err) ==
    IF err = [kind |-> "EOF"]
    THEN [b EXCEPT !.pc = "returned", !.steps = @ + 1, !.last = "EOF",
                   !.err = NoErr, !.result = IterResult(b)]
    ELSE [b EXCEPT !.steps = @ + 1, !.last = IF err = NoErr THEN "nil" ELSE "error",
                   !.fetched = IterFetched(b, err)]

\* the loop that returns what was fetched so far when a batch fails
BasicLoop_ReturnsPartial(b, err) ==
    IF err = [kind |-> "EOF"] \/ err # NoErr
    THEN [b EXCEPT !.pc = "returned", !.steps = @ + 1,
                   !.last = IF err = [kind |-> "EOF"] THEN "EOF" ELSE "error",
                   !.err = NoErr, !.result = IterResult(b)]
    ELSE [b EXCEPT !.steps = @ + 1, !.last = "nil", !.fetched = IterFetched(b, err)]

\* one pass of the loop of FetchReceipts, in which fetcher.Fetch returned err
BasicLoop(b, err) ==
    IF err = [kind |-> "EOF"]
    THEN [b EXCEPT !.pc = "returned", !.steps = @ + 1, !.last = "EOF",
                   !.err = NoErr, !.result = IterResult(b)]
    ELSE IF err # NoErr
    THEN [b EXCEPT !.pc = "returned", !.steps = @ + 1, !.last = "error",
                   !.err = err, !.result = NilReceipts]
    ELSE [b EXCEPT !.steps = @ + 1, !.last = "nil", !.fetched = IterFetched(b, err)]

\* FetchReceipts was called with n transaction hashes
BasicInit ==
    /\ cache = << >>
    /\ provKind = RPCKindBasic
    /\ availableReceiptMethods = AvailableReceiptsFetchingMethods(provKind)
    /\ now = 0
    /\ lastMethodsReset = 0
    /\ methodResetDuration = 1
    /\ ret = NoCall
    /\ pick = NoPick
    /\ val = NoVal
    /\ flag = NoFlag
    /\ inflight = NoInflight
    /\ calls = NoCalls
    /\ tried = << >>
    /\ basic \in {[NoBasic EXCEPT !.pc = "loop", !.n = n, !.batch = size] :
                    n \in 0..MaxBasicTx, size \in 1..MaxBatchSize}

\* one pass of the loop
BasicFetch ==
    /\ basic.pc = "loop"
    /\ \E err \in IterFetch(basic) : basic' = BasicLoop(basic, err)
    /\ UNCHANGED <<cache, fetcherVars, now, ret, pick, val, flag, inflight, calls, tried>>

BasicNext == BasicFetch

\* the call keeps running until it returns
BasicSpec == BasicInit /\ [][BasicNext]_vars /\ WF_vars(BasicFetch)

----------------------------------------------------------------------------
(* Overlapping FetchReceipts calls on one RPCReceiptsFetcher. Nothing guards   *)
(* availableReceiptMethods and lastMethodsReset, so every read and every write *)
(* of them is a step of its own and the steps of the callers interleave. A     *)
(* racing read of either field yields a value some caller wrote.               *)

\* ret after a step that is not the write of a bit-clear
NoClear == [op |-> "none", caller |-> "", m |-> 0, read |-> 0, before |-> 0]

\* the errors a request can end with, nil included
RequestErrors == {NoErr, ErrMethodNotFound, ErrTimeout}

RaceInit ==
    /\ Init

\* caller c goes on in local state l; ob is what the step leaves in ret
RaceGoes(c, l, ob) ==
    /\ calls' = [calls EXCEPT ![c] = l]
    /\ ret' = ob

RaceTick ==
    /\ now < MaxTime
    /\ now' = now + 1
    /\ ret' = NoClear
    /\ UNCHANGED <<cache, provKind, availableReceiptMethods, lastMethodsReset,
                   methodResetDuration, pick, val, flag, inflight, calls, tried, basic>>

\* PickReceiptsMethod: time.Now() and the comparison with lastMethodsReset
RaceCheckReset(c) ==
    /\ calls[c].pc = "idle"
    /\ IF now - lastMethodsReset > methodResetDuration
       THEN RaceGoes(c, [Idle EXCEPT !.pc = "reset_methods", !.due = TRUE, !.t = now], NoClear)
       ELSE RaceGoes(c, [Idle EXCEPT !.pc = "select"], NoClear)
    /\ UNCHANGED <<cache, provKind, availableReceiptMethods, lastMethodsReset,
                   methodResetDuration, now, pick, val, flag, inflight, tried, basic>>

\* PickReceiptsMethod: f.availableReceiptMethods = m
RaceResetMethods(c) ==
    /\ calls[c].pc = "reset_methods"
    /\ availableReceiptMethods' = AvailableReceiptsFetchingMethods(provKind)
    /\ RaceGoes(c, [calls[c] EXCEPT !.pc = "reset_time"], NoClear)
    /\ UNCHANGED <<cache, provKind, lastMethodsReset, methodResetDuration, now, pick, val,
                   flag, inflight, tried, basic>>

\* PickReceiptsMethod: f.lastMethodsReset = now, the time this call read
RaceResetTime(c) ==
    /\ calls[c].pc = "reset_time"
    /\ lastMethodsReset' = calls[c].t
    /\ RaceGoes(c, [Idle EXCEPT !.pc = "select"], NoClear)
    /\ UNCHANGED <<cache, provKind, availableReceiptMethods, methodResetDuration, now, pick,
                   val, flag, inflight, tried, basic>>

\* PickReceiptsMethod: the read of availableReceiptMethods and the selection
RaceSelect(c) ==
    /\ calls[c].pc = "select"
    /\ \E txCount \in {SmallTxCount, LargeTxCount} :
          RaceGoes(c, [Idle EXCEPT !.pc = "request",
                                   !.m = PickBestReceiptsFetchingMethod(
                                             provKind, availableReceiptMethods, txCount)],
                   NoClear)
    /\ UNCHANGED <<cache, provKind, availableReceiptMethods, lastMethodsReset,
                   methodResetDuration, now, pick, val, flag, inflight, tried, basic>>

\* the request of the selected method, and the test of OnReceiptsMethodErr:
\* the call returns unless the error makes the method unusable
RaceRequest(c) ==
    /\ calls[c].pc = "request"
    /\ \E err \in RequestErrors :
          IF err # NoErr /\ unusableMethod(err)
          THEN RaceGoes(c, [calls[c] EXCEPT !.pc = "clear_read", !.err = err], NoClear)
          ELSE RaceGoes(c, Idle, NoClear)
    /\ UNCHANGED <<cache, provKind, availableReceiptMethods, lastMethodsReset,
                   methodResetDuration, now, pick, val, flag, inflight, tried, basic>>

\* OnReceiptsMethodErr: the read of f.availableReceiptMethods &^= m
RaceClearRead(c) ==
    /\ calls[c].pc = "clear_read"
    /\ RaceGoes(c, [calls[c] EXCEPT !.pc = "clear_write", !.tmp = availableReceiptMethods],
                NoClear)
    /\ UNCHANGED <<cache, provKind, availableReceiptMethods, lastMethodsReset,
                   methodResetDuration, now, pick, val, flag, inflight, tried, basic>>

\* OnReceiptsMethodErr: the write of f.availableReceiptMethods &^= m, computed
\* from the value read before, and the return of the call
RaceClearWrite(c) ==
    /\ calls[c].pc = "clear_write"
    /\ availableReceiptMethods' =
          OnReceiptsMethodErr([Fetcher EXCEPT !.availableReceiptMethods = calls[c].tmp],
                              calls[c].m, calls[c].err).availableReceiptMethods
    /\ RaceGoes(c, Idle, [op |-> "clear", caller |-> c, m |-> calls[c].m,
                          read |-> calls[c].tmp, before |-> availableReceiptMethods])
    /\ UNCHANGED <<cache, provKind, lastMethodsReset, methodResetDuration, now, pick, val,
                   flag, inflight, tried, basic>>

RaceNext ==
    \/ RaceTick
    \/ \E c \in Callers :
          \/ RaceCheckReset(c)
          \/ RaceResetMethods(c)
          \/ RaceResetTime(c)
          \/ RaceSelect(c)
          \/ RaceRequest(c)
          \/ RaceClearRead(c)
          \/ RaceClearWrite(c)

RaceSpec == RaceInit /\ [][RaceNext]_vars

----------------------------------------------------------------------------
(* Overlapping FetchReceipts calls on one CachingReceiptsProvider. The cache   *)
(* synchronises its own operations, so cache.Get and cache.Add are one step    *)
(* each; the inner fetch of a call lies between them, and the steps of the     *)
(* callers interleave. The calls overlap within one reading of the clock.      *)

\* ret after a step of caller c in a call for block; before is what cache.Get
\* would have answered for the block when the step was taken
ColdEvent(op, c, block, result, err, before) ==
    [op |-> op, caller |-> c, block |-> block, result |-> result, err |-> err,
     had |-> before.ok, old |-> before.value]

ColdInit ==
    /\ Init

\* cache.Get with the outcome g: a hit returns, a miss goes on to the inner fetcher
ColdLookedUp(c, block, g) ==
    /\ cache' = g.cache
    /\ IF g.ok
       THEN /\ ret' = ColdEvent("hit", c, block, g.value, NoErr, g)
            /\ UNCHANGED calls
       ELSE /\ ret' = ColdEvent("miss", c, block, NilReceipts, NoErr, g)
            /\ calls' = [calls EXCEPT ![c] = [Idle EXCEPT !.pc = "inner", !.block = block]]
    /\ UNCHANGED <<fetcherVars, now, pick, val, flag, inflight, tried, basic>>

\* the start of a FetchReceipts call of caller c
ColdGet(c, block) ==
    /\ calls[c].pc = "idle"
    /\ ColdLookedUp(c, block, CacheGet(cache, block.Hash))

\* the inner fetcher has returned out to caller c
ColdFetched(c, out) ==
    /\ SetFetcher(out.f)
    /\ calls' = [calls EXCEPT ![c] = [@ EXCEPT !.pc = "fetched", !.err = out.err,
                                               !.result = out.result]]
    /\ ret' = ColdEvent("inner", c, calls[c].block, out.result, out.err,
                       CacheGet(cache, calls[c].block.Hash))
    /\ UNCHANGED <<cache, now, pick, val, flag, inflight, tried, basic>>

\* p.inner.FetchReceipts of caller c, which saw the miss
ColdInner(c) ==
    /\ calls[c].pc = "inner"
    /\ \E rpc \in RPCOutcomes :
          ColdFetched(c, RPCFetchReceipts(Fetcher, now, calls[c].block,
                                          TxHashesOf(calls[c].block), rpc))

\* caller c returns out: the cache as cache.Add left it, if it was called
ColdReturned(c, out) ==
    /\ cache' = out.cache
    /\ ret' = ColdEvent(IF out.err = NoErr THEN "added" ELSE "failed", c, calls[c].block,
                        out.result, out.err, CacheGet(cache, calls[c].block.Hash))
    /\ calls' = [calls EXCEPT ![c] = Idle]
    /\ UNCHANGED <<fetcherVars, now, pick, val, flag, inflight, tried, basic>>

\* the end of the call of caller c: the error check, cache.Add and the return
ColdAfter(c) ==
    /\ calls[c].pc = "fetched"
    /\ ColdReturned(c, CachingAfterMiss(cache, calls[c].block,
                                        [err |-> calls[c].err, result |-> calls[c].result]))

ColdNext ==
    \E c \in Callers :
        \/ \E block \in Blocks : ColdGet(c, block)
        \/ ColdInner(c)
        \/ ColdAfter(c)

ColdSpec == ColdInit /\ [][ColdNext]_vars

----------------------------------------------------------------------------
(* Properties of the caching provider and the adaptive fetcher (Spec) *)

\* the step is a FetchReceipts call of the caching provider
FetchStep == ret'.op = "FetchReceipts" /\ now' = now

\* the step is a FetchReceipts call that reached the inner RPCReceiptsFetcher
InnerFetchStep == FetchStep /\ ret'.innerCalled

\* the reset of PickReceiptsMethod is due
ResetDue == now - lastMethodsReset > methodResetDuration

\* the registry default of the configured kind
Default == AvailableReceiptsFetchingMethods(provKind)

\* the entry of a key that is in the cache
Stored(c, key) == c[CacheIndex(c, key)].value

\* C1: a FetchReceipts whose block hash has an entry in the cache returns exactly
\* the stored list and no error, and does not reach the inner fetcher: no RPC is
\* issued and the fetcher is left as it was. The entry is the list a successful
\* FetchReceipts stored, and it keeps its value for as long as it is in the cache.
C1_CacheHit ==
    [][/\ (FetchStep /\ ret'.block.Hash \in CacheKeys(cache)) =>
            /\ ret'.result = Stored(cache, ret'.block.Hash)
            /\ ret'.err = NoErr
            /\ ~ret'.innerCalled
            /\ ret'.attempts = << >>
            /\ UNCHANGED fetcherVars
       /\ (InnerFetchStep /\ ret'.err = NoErr) =>
            /\ ret'.block.Hash \in CacheKeys(cache')
            /\ Stored(cache', ret'.block.Hash) = ret'.result
       /\ \A key \in CacheKeys(cache) \cap CacheKeys(cache') :
            Stored(cache', key) = Stored(cache, key)
      ]_vars

\* a FetchReceipts was served from the cache
C1_Witness ==
    /\ ret.op = "FetchReceipts"
    /\ ~ret.innerCalled
    /\ ret.err = NoErr
    /\ Len(ret.result) = Len(ret.txHashes)
    /\ ret.block.Hash \in CacheKeys(cache)

\* C2: when a FetchReceipts misses the cache and the inner fetcher returns an
\* error, the call returns no receipts and that same error, and the cache is as it
\* was: the block hash is still not found in it.
C2_InnerErrorNotCached ==
    [][(InnerFetchStep /\ ret'.innerErr # NoErr) =>
            /\ ret'.result = NilReceipts
            /\ ret'.err = ret'.innerErr
            /\ cache' = cache
            /\ ~CachedReceipts(cache', ret'.block.Hash).ok
      ]_vars

\* a FetchReceipts missed the cache and the inner fetcher failed
C2_Witness ==
    /\ ret.op = "FetchReceipts"
    /\ ret.innerCalled
    /\ ret.innerErr = ErrTimeout
    /\ ret.err = ErrTimeout
    /\ ret.block.Hash \notin CacheKeys(cache)

\* the block with a given hash
BlockOfHash(hash) == CHOOSE block \in Blocks : block.Hash = hash

\* a receipt list passes validateReceipts for the block and its header's receipts root
Validated(block, receipts) ==
    validateReceipts(block, ReceiptHashOf(block), TxHashesOf(block), receipts).kind = "nil"

\* C3: every receipt list FetchReceipts returns, and every list in the cache, has
\* passed validateReceipts for its block.
C3_AllValidated ==
    /\ (ret.op = "FetchReceipts" /\ ret.err = NoErr) => Validated(ret.block, ret.result)
    /\ \A i \in 1..Len(cache) : Validated(BlockOfHash(cache[i].key), cache[i].value)

\* a receipt list matches txHashes: one entry per hash, entry i belonging to txHashes[i]
MatchesTxHashes(receipts, txHashes) ==
    /\ Len(receipts) = Len(txHashes)
    /\ \A i \in 1..Len(receipts) :
        /\ receipts[i] # NilReceipt
        /\ receipts[i].TxHash = txHashes[i]

\* C4: whenever FetchReceipts of the adaptive fetcher or of the caching provider
\* returns without error, the returned list matches the txHashes of the call.
C4_OrderMatching ==
    (ret.op = "FetchReceipts" /\ ret.err = NoErr) =>
        /\ MatchesTxHashes(ret.result, ret.txHashes)
        /\ ret.innerCalled => MatchesTxHashes(ret.innerResult, ret.txHashes)

\* C7: degrade and recover. (a) A call that fails on method M with a method-unusable
\* error leaves M's bit cleared. (b) While no reset is due, a call never selects a
\* method of the registry default whose bit is cleared, and no bit comes back.
\* (c) A call made when the reset is due selects from the whole registry default again.
\* In (b), M ranges over the methods in Ms.
DegradeAndRecover(Ms) ==
    /\ (InnerFetchStep /\ unusableMethod(ret'.innerErr)) =>
            BitAnd(availableReceiptMethods', ret'.method) = 0
    /\ (InnerFetchStep /\ ~ResetDue) =>
            /\ \A M \in Ms :
                (BitAnd(Default, M) # 0 /\ BitAnd(availableReceiptMethods, M) = 0)
                    => ret'.method # M
            /\ BitAnd(availableReceiptMethods', availableReceiptMethods)
                    = availableReceiptMethods'
            /\ lastMethodsReset' = lastMethodsReset
    /\ (InnerFetchStep /\ ResetDue) =>
            /\ ret'.method = PickBestReceiptsFetchingMethod(provKind, Default,
                                                            Len(ret'.txHashes))
            /\ lastMethodsReset' = now
            /\ BitOr(availableReceiptMethods',
                     IF unusableMethod(ret'.innerErr) THEN ret'.method ELSE 0) = Default

\* C7 as stated: for every method M of the registry default, the per-transaction
\* method included.
C7_Original == [][DegradeAndRecover(KnownMethods)]_vars

\* C7 amended: for every bulk method M of the registry default. The bit of the
\* per-transaction method is cleared like any other, but the method stays the
\* fallback of the selection.
C7_DegradeAndRecover ==
    [][DegradeAndRecover(KnownMethods \ {EthGetTransactionReceiptBatch})]_vars

\* without any reset so far, a bulk method of the default is cleared and the last
\* call selected another method
C7_Witness ==
    /\ ret.op = "FetchReceipts"
    /\ ret.innerCalled
    /\ lastMethodsReset = 0
    /\ \E M \in KnownMethods \ {EthGetTransactionReceiptBatch} :
        /\ BitAnd(Default, M) # 0
        /\ BitAnd(availableReceiptMethods, M) = 0
        /\ ret.method # M
        /\ ret.innerErr = NoErr

\* C8: when the selected method fails with an error that is not method-unusable,
\* availableReceiptMethods is what the selection left (the registry default if the
\* reset was due, else unchanged), and the same method is selected again for the
\* same transaction count.
C8_TransientKeepsMethods ==
    [][(InnerFetchStep /\ ret'.innerErr # NoErr /\ ~unusableMethod(ret'.innerErr)) =>
            /\ availableReceiptMethods' = IF ResetDue THEN Default ELSE availableReceiptMethods
            /\ PickBestReceiptsFetchingMethod(provKind', availableReceiptMethods',
                                              Len(ret'.txHashes)) = ret'.method
      ]_vars

\* a bulk method failed with a timeout and its bit is still set
C8_Witness ==
    /\ ret.op = "FetchReceipts"
    /\ ret.innerErr = ErrTimeout
    /\ ret.method # EthGetTransactionReceiptBatch
    /\ BitAnd(availableReceiptMethods, ret.method) # 0

\* C9: a FetchReceipts of the adaptive fetcher issues the RPC of exactly one
\* method, the selected one; if it fails, with whatever error, the call returns
\* nil receipts and that error.
C9_OneAttempt ==
    (ret.op = "FetchReceipts" /\ ret.innerCalled) =>
        /\ ret.attempts = <<MethodName(ret.method)>>
        /\ ret.innerErr # NoErr => (ret.innerResult = NilReceipts /\ ret.err = ret.innerErr)

\* a call failed on a bulk method as unusable while the per-transaction method was available
C9_Witness ==
    /\ ret.op = "FetchReceipts"
    /\ ret.innerErr = ErrMethodNotFound
    /\ ret.method # EthGetTransactionReceiptBatch
    /\ BitAnd(availableReceiptMethods, EthGetTransactionReceiptBatch) # 0
    /\ ret.result = NilReceipts

\* C10: when DebugGetRawReceipts is the selected method and the RPC succeeds with
\* a number of raw receipts other than len(txHashes), FetchReceipts fails with an
\* error carrying both counts and returns no receipts, and nothing is stored for
\* the block hash.
C10_RawCountMismatch ==
    [][\A rpc \in RPCOutcomes :
        (/\ InnerFetchStep
         /\ ret'.method = DebugGetRawReceipts
         /\ rpc.err = NoErr
         /\ Len(RawReceipts(ret'.block, rpc.variant)) # Len(ret'.txHashes)
         /\ FetchInner(ret'.block, ret'.txHashes,
                       RPCFetchReceipts(Fetcher, now, ret'.block, ret'.txHashes, rpc)))
        => /\ ret'.innerErr = [kind |-> "raw_receipts_count",
                               got |-> Len(RawReceipts(ret'.block, rpc.variant)),
                               expected |-> Len(ret'.txHashes)]
           /\ ret'.err = ret'.innerErr
           /\ ret'.innerResult = NilReceipts
           /\ ret'.result = NilReceipts
           /\ cache' = cache
           /\ ~CachedReceipts(cache', ret'.block.Hash).ok
      ]_vars

\* debug_getRawReceipts answered with one raw receipt too few
C10_Witness ==
    /\ ret.op = "FetchReceipts"
    /\ ret.method = DebugGetRawReceipts
    /\ ret.err.kind = "raw_receipts_count"
    /\ ret.err.got = Len(ret.txHashes) - 1
    /\ ret.err.expected = Len(ret.txHashes)
    /\ ret.block.Hash \notin CacheKeys(cache)

\* the step is a CachedReceipts call of the caching provider
ProbeStep == ret'.op = "CachedReceipts" /\ now' = now

\* C15: CachedReceipts(blockHash) returns (list, true) exactly when an entry for
\* blockHash is in the cache, with the stored list, and (nil, false) otherwise; it
\* does not reach the inner fetcher, adds or replaces no cache entry and leaves the
\* adaptive fetcher as it was.
C15_ProbeOnly ==
    [][ProbeStep =>
            /\ ret'.found <=> ret'.block.Hash \in CacheKeys(cache)
            /\ ret'.found => ret'.result = Stored(cache, ret'.block.Hash)
            /\ ~ret'.found => ret'.result = NilReceipts
            /\ ~ret'.innerCalled
            /\ ret'.attempts = << >>
            /\ CacheKeys(cache') = CacheKeys(cache)
            /\ \A key \in CacheKeys(cache) : Stored(cache', key) = Stored(cache, key)
            /\ UNCHANGED fetcherVars
      ]_vars

\* a probe missed while another block was cached and a method had been given up
C15_Witness ==
    /\ ret.op = "CachedReceipts"
    /\ ~ret.found
    /\ ret.result = NilReceipts
    /\ cache # << >>
    /\ ret.block.Hash \notin CacheKeys(cache)
    /\ availableReceiptMethods # Default

\* C18: a FetchReceipts of the fetcher made when now - lastMethodsReset is strictly
\* greater than methodResetDuration selects its method from the registry default and
\* sets lastMethodsReset to now, whatever availableReceiptMethods was; otherwise it
\* selects from availableReceiptMethods as it is and keeps lastMethodsReset. Passing
\* time alone, and calls that do not reach the fetcher, change neither field.
C18_LazyReset ==
    [][/\ (InnerFetchStep /\ ResetDue) =>
            /\ lastMethodsReset' = now
            /\ ret'.method = PickBestReceiptsFetchingMethod(provKind, Default,
                                                            Len(ret'.txHashes))
            /\ availableReceiptMethods' \in {Default, BitAndNot(Default, ret'.method)}
       /\ (InnerFetchStep /\ ~ResetDue) =>
            /\ lastMethodsReset' = lastMethodsReset
            /\ ret'.method = PickBestReceiptsFetchingMethod(provKind, availableReceiptMethods,
                                                            Len(ret'.txHashes))
            /\ availableReceiptMethods' \in
                    {availableReceiptMethods, BitAndNot(availableReceiptMethods, ret'.method)}
       /\ ~InnerFetchStep => UNCHANGED <<availableReceiptMethods, lastMethodsReset>>
      ]_vars

\* a call after an idle time longer than the interval reset the fetcher
C18_Witness ==
    /\ ret.op = "FetchReceipts"
    /\ ret.innerCalled
    /\ ret.innerErr = NoErr
    /\ lastMethodsReset = now
    /\ now > methodResetDuration
    /\ availableReceiptMethods = Default

\* availableReceiptMethods after the reset check of the step's call, if it makes one
AfterPick == IF InnerFetchStep /\ ResetDue THEN Default ELSE availableReceiptMethods

\* C20: availableReceiptMethods changes only by the reset, to the registry default,
\* and by a method-unusable failure, which clears the bit of the selected method
\* and no other; a successful fetch clears no bit; provKind and methodResetDuration
\* never change.
C20_Frame ==
    [][/\ provKind' = provKind
       /\ methodResetDuration' = methodResetDuration
       /\ availableReceiptMethods' # AfterPick =>
            /\ InnerFetchStep
            /\ unusableMethod(ret'.innerErr)
            /\ availableReceiptMethods' = BitAndNot(AfterPick, ret'.method)
       /\ (InnerFetchStep /\ ret'.innerErr = NoErr) => availableReceiptMethods' = AfterPick
      ]_vars

\* a bulk method failed as unusable: its bit is cleared and the others are as they were
C20_Witness ==
    /\ ret.op = "FetchReceipts"
    /\ ret.innerErr = ErrMethodNotFound
    /\ ret.method # EthGetTransactionReceiptBatch
    /\ lastMethodsReset = 0
    /\ availableReceiptMethods = BitAndNot(Default, ret.method)
    /\ availableReceiptMethods # 0

\* C21: availableReceiptMethods is always a subset of the registry default of the
\* configured kind, and a step without a reset never adds a bit to it: between two
\* resets each value is a subset of the value before it.
C21_MonotoneNarrowing ==
    [][/\ BitAnd(availableReceiptMethods', Default) = availableReceiptMethods'
       /\ lastMethodsReset' = lastMethodsReset =>
            BitAnd(availableReceiptMethods', availableReceiptMethods)
                = availableReceiptMethods'
      ]_vars

\* kind any, two methods given up one after the other without a reset
C21_Witness ==
    /\ provKind = RPCKindAny
    /\ lastMethodsReset = 0
    /\ availableReceiptMethods =
            BitAndNot(BitAndNot(Default, AlchemyGetTransactionReceipts), DebugGetRawReceipts)
    /\ ret.method = DebugGetRawReceipts
    /\ unusableMethod(ret.innerErr)

\* C27: a call that finds no bit set in availableReceiptMethods (after the reset
\* check) selects the per-transaction method and issues its request, for every
\* kind and both transaction counts: the fetcher is never without a method to try.
C27_AlwaysSelectable ==
    [][(InnerFetchStep /\ AfterPick = 0) =>
            /\ ret'.method = EthGetTransactionReceiptBatch
            /\ ret'.attempts = <<MethodName(EthGetTransactionReceiptBatch)>>
      ]_vars

\* every bit was cleared, and the per-transaction method fetched the receipts
C27_Witness ==
    /\ ret.op = "FetchReceipts"
    /\ ret.innerCalled
    /\ availableReceiptMethods = 0
    /\ Default # EthGetTransactionReceiptBatch
    /\ ret.method = EthGetTransactionReceiptBatch
    /\ ret.innerErr = NoErr

\* C28: the method of every fetch attempt is one of the six known single-bit
\* methods and is in the registry default of the configured kind; the dispatch
\* never ends in its 'unknown receipt fetching method' branch.
C28_KnownMethod ==
    (ret.op = "FetchReceipts" /\ ret.innerCalled) =>
        /\ ret.method \in KnownMethods
        /\ BitAnd(Default, ret.method) = ret.method
        /\ ret.innerErr.kind # "unknown_method"
        /\ ret.attempts # << >>

\* a bulk method of the kind was tried after a reset
C28_Witness ==
    /\ ret.op = "FetchReceipts"
    /\ ret.innerCalled
    /\ provKind = RPCKindNethermind
    /\ ret.method = ParityGetBlockReceipts
    /\ lastMethodsReset > 0

----------------------------------------------------------------------------
(* Properties of PickBestReceiptsFetchingMethod (PickSpec) *)

\* C5: for every kind, every bitset `available` and every txCount, the method
\* returned has its bit set in `available` or is EthGetTransactionReceiptBatch,
\* and it is one of the six known methods.
C5_PickedIsAvailable ==
    pick.result # 0 =>
        /\ pick.result \in KnownMethods
        /\ \/ BitAnd(pick.available, pick.result) # 0
           \/ pick.result = EthGetTransactionReceiptBatch

\* a bulk method is returned for alchemy, and the fallback is returned although
\* its bit is not set
C5_Witness ==
    \/ /\ pick.kind = RPCKindAlchemy
       /\ pick.result = EthGetBlockReceipts
    \/ /\ pick.result = EthGetTransactionReceiptBatch
       /\ BitAnd(pick.available, EthGetTransactionReceiptBatch) = 0
       /\ pick.available # 0

\* the break-even of alchemy_getTransactionReceipts against the per-transaction method
AlchemyBreakEven == 250 \div 15

\* C6: for kind alchemy with AlchemyGetTransactionReceipts in `available`,
\* whatever other bits are set, the per-transaction method is returned at
\* txCount = breakEven - 1 and AlchemyGetTransactionReceipts at breakEven + 1,
\* with breakEven = 16.
C6_AlchemyBreakEven ==
    (/\ pick.result # 0
     /\ pick.kind = RPCKindAlchemy
     /\ BitAnd(pick.available, AlchemyGetTransactionReceipts) # 0) =>
        /\ AlchemyBreakEven = 16
        /\ pick.txCount = AlchemyBreakEven - 1 => pick.result = EthGetTransactionReceiptBatch
        /\ pick.txCount = AlchemyBreakEven + 1 => pick.result = AlchemyGetTransactionReceipts

\* alchemy with every bit set, one transaction above the break-even
C6_Witness ==
    /\ pick.kind = RPCKindAlchemy
    /\ pick.available = MaxAvailable
    /\ pick.txCount = AlchemyBreakEven + 1
    /\ pick.result = AlchemyGetTransactionReceipts

\* the cost, in Alchemy compute units, of fetching the receipts of txCount
\* transactions with method m
AlchemyCost(m, txCount) ==
    CASE m = EthGetTransactionReceiptBatch -> 15 * txCount
      [] m = AlchemyGetTransactionReceipts -> 250
      [] m = EthGetBlockReceipts -> 500

\* the methods the alchemy selection chooses among
AlchemyCandidates(available) ==
    {EthGetTransactionReceiptBatch}
    \cup {m \in {AlchemyGetTransactionReceipts, EthGetBlockReceipts} :
            BitAnd(available, m) # 0}

\* C14: for kind alchemy, every `available` and every txCount, the returned method
\* is the per-transaction method or a bulk method of {AlchemyGetTransactionReceipts,
\* EthGetBlockReceipts} set in `available`, and none of these costs less (15 per
\* transaction, 250 flat, 500 flat).
C14_AlchemyCheapest ==
    (pick.result # 0 /\ pick.kind = RPCKindAlchemy) =>
        /\ pick.result \in AlchemyCandidates(pick.available)
        /\ \A m \in AlchemyCandidates(pick.available) :
            AlchemyCost(pick.result, pick.txCount) <= AlchemyCost(m, pick.txCount)

\* both bulk methods available and cheaper than per-transaction fetching
C14_Witness ==
    /\ pick.kind = RPCKindAlchemy
    /\ pick.result = AlchemyGetTransactionReceipts
    /\ BitAnd(pick.available, EthGetBlockReceipts) # 0
    /\ 15 * pick.txCount > 500

\* C25: for kind quicknode, DebugGetRawReceipts is returned whenever its bit is set,
\* for every txCount, also 0; otherwise EthGetBlockReceipts exactly when its bit is
\* set and txCount > 29; otherwise the per-transaction method. No other bit matters.
C25_QuickNodeSelection ==
    (pick.result # 0 /\ pick.kind = RPCKindQuickNode) =>
        pick.result =
            IF BitAnd(pick.available, DebugGetRawReceipts) # 0 THEN DebugGetRawReceipts
            ELSE IF BitAnd(pick.available, EthGetBlockReceipts) # 0 /\ pick.txCount > 29
                THEN EthGetBlockReceipts
            ELSE EthGetTransactionReceiptBatch

\* quicknode with the debug method available and no transaction
C25_Witness ==
    /\ pick.kind = RPCKindQuickNode
    /\ pick.txCount = 0
    /\ BitAnd(pick.available, DebugGetRawReceipts) # 0
    /\ pick.result = DebugGetRawReceipts

\* the fixed preference order of the bulk methods
PreferenceOrder ==
    <<AlchemyGetTransactionReceipts, DebugGetRawReceipts, ErigonGetBlockReceiptsByBlockHash,
      EthGetBlockReceipts, ParityGetBlockReceipts>>

\* the positions in the preference order of the methods set in `available`
Preferred(available) ==
    {i \in 1..Len(PreferenceOrder) : BitAnd(available, PreferenceOrder[i]) # 0}

\* the first method of the preference order set in `available`, else the
\* per-transaction method
FirstPreferred(available) ==
    IF Preferred(available) = {} THEN EthGetTransactionReceiptBatch
    ELSE PreferenceOrder[CHOOSE i \in Preferred(available) :
                            \A j \in Preferred(available) : i <= j]

\* C26: for every kind other than alchemy and quicknode, the result is the first
\* method of the order AlchemyGetTransactionReceipts, DebugGetRawReceipts,
\* ErigonGetBlockReceiptsByBlockHash, EthGetBlockReceipts, ParityGetBlockReceipts
\* whose bit is set in `available`, the per-transaction method if none is; txCount
\* does not enter.
C26_FixedOrder ==
    (pick.result # 0 /\ pick.kind \notin {RPCKindAlchemy, RPCKindQuickNode}) =>
        pick.result = FirstPreferred(pick.available)

\* erigon and two weaker bulk methods available, erigon returned for a large block
C26_Witness ==
    /\ pick.kind = RPCKindStandard
    /\ pick.available = OrAll({ErigonGetBlockReceiptsByBlockHash, EthGetBlockReceipts,
                               ParityGetBlockReceipts, EthGetTransactionReceiptBatch})
    /\ pick.txCount = MaxTxCount
    /\ pick.result = ErigonGetBlockReceiptsByBlockHash

----------------------------------------------------------------------------
(* Properties of validateReceipts (ValidateSpec) *)

RECURSIVE LogsBefore(_, _)
\* the number of logs of the receipts before receipt i
LogsBefore(receipts, i) ==
    IF i = 1 THEN 0 ELSE Len(receipts[i - 1].Logs) + LogsBefore(receipts, i - 1)

\* a well-formed receipt list for the block and its transactions: one non-null
\* receipt per transaction hash, positional indices, the block's number and hash,
\* gasUsed the difference of the cumulative gas, logs numbered through the block
WellFormed(block, txHashes, receipts) ==
    /\ Len(receipts) = Len(txHashes)
    /\ \A i \in 1..Len(receipts) : receipts[i] # NilReceipt
    /\ \A i \in 1..Len(receipts) :
        LET r == receipts[i] IN
        /\ r.TransactionIndex = i - 1
        /\ r.BlockNumber = block.Number
        /\ r.BlockHash = block.Hash
        /\ r.GasUsed = r.CumulativeGasUsed
                        - (IF i = 1 THEN 0 ELSE receipts[i - 1].CumulativeGasUsed)
        /\ \A j \in 1..Len(r.Logs) :
            /\ r.Logs[j].Index = LogsBefore(receipts, i) + j - 1
            /\ r.Logs[j].TxIndex = i - 1
            /\ r.Logs[j].TxHash = txHashes[i]
            /\ r.Logs[j].BlockHash = block.Hash
            /\ r.Logs[j].BlockNumber = block.Number
            /\ ~r.Logs[j].Removed

\* C11: validateReceipts returns no error for every well-formed receipt list when
\* the expected root is the trie root computed from that same list.
C11_AcceptsWellFormed ==
    (/\ val.done
     /\ WellFormed(val.block, val.txHashes, val.receipts)
     /\ val.receiptHash = DeriveSha(val.receipts))
        => val.err = NoErr

\* two receipts, logs in both, accepted
C11_Witness ==
    /\ val.done
    /\ val.err = NoErr
    /\ Len(val.receipts) = 2
    /\ WellFormed(val.block, val.txHashes, val.receipts)
    /\ Len(val.receipts[1].Logs) = 2
    /\ Len(val.receipts[2].Logs) = 1
    /\ val.receipts[2].GasUsed = 1
    /\ val.receiptHash = DeriveSha(val.receipts)

\* the fields validateReceipts compares, as changes of a list
CheckedChange(c) ==
    \/ c.log = 0 /\ c.field \in {"TransactionIndex", "BlockNumber", "BlockHash",
                                 "CumulativeGasUsed", "GasUsed", "nil", "swap"}
    \/ c.log > 0 /\ c.field \in {"Index", "TxIndex", "BlockHash", "BlockNumber", "TxHash",
                                 "Removed"}

\* the error that names the changed field
ErrKindOf(c) ==
    IF c.log = 0 THEN
        CASE c.field = "TransactionIndex" -> "tx_index"
          [] c.field = "swap" -> "tx_index"
          [] c.field = "BlockNumber" ->
                IF c.to = NilBlockNumber THEN "nil_block_number" ELSE "block_number"
          [] c.field = "BlockHash" -> "block_hash"
          [] c.field = "CumulativeGasUsed" -> "gas_used"
          [] c.field = "GasUsed" -> "gas_used"
          [] c.field = "nil" -> "nil_receipt"
    ELSE
        CASE c.field = "Index" -> "log_index"
          [] c.field = "TxIndex" -> "log_tx_index"
          [] c.field = "BlockHash" -> "log_block_hash"
          [] c.field = "BlockNumber" -> "log_block_number"
          [] c.field = "TxHash" -> "log_tx_hash"
          [] c.field = "Removed" -> "log_removed"

\* C12: after a single change of a checked field of an accepted list (a log index,
\* a receipt's or a log's block hash, the order of two receipts, gasUsed,
\* cumulativeGasUsed, ...), with the expected root kept, validateReceipts returns
\* an error, and the error is the one of the changed field, at the changed receipt.
C12_RejectsSingleChange ==
    (/\ val.done
     /\ CheckedChange(val.change)
     /\ val.receiptHash = DeriveSha(val.base))
        => /\ val.err # NoErr
           /\ val.err.kind = ErrKindOf(val.change)
           /\ val.change.log = 0 => val.err.tx = val.change.tx - 1
           /\ val.err.kind = "log_index" => val.err.tx = val.change.tx - 1

\* the second receipt's cumulative gas was changed and the call failed on its gas
C12_Witness ==
    /\ val.done
    /\ val.change.field = "CumulativeGasUsed"
    /\ val.change.tx = 2
    /\ val.receiptHash = DeriveSha(val.base)
    /\ val.err.kind = "gas_used"

\* C13: for a block without transactions and an empty receipt list, validateReceipts
\* succeeds when the expected root is the empty-trie root and fails for every other.
C13_EmptyBlock ==
    (val.done /\ val.txHashes = << >> /\ val.receipts = << >>)
        => (val.err = NoErr <=> val.receiptHash = EmptyRootHash)

\* an empty block with another root was rejected
C13_Witness ==
    /\ val.done
    /\ val.txHashes = << >>
    /\ val.receipts = << >>
    /\ val.receiptHash = OtherRoot
    /\ val.err # NoErr

\* C12 for every change but that of a block number to one beyond 64 bits
C12_ChangesWithinUint64 ==
    (/\ val.done
     /\ CheckedChange(val.change)
     /\ ~(val.change.log = 0 /\ val.change.field = "BlockNumber"
            /\ val.change.to # NilBlockNumber /\ Uint64(val.change.to) # val.change.to)
     /\ val.receiptHash = DeriveSha(val.base))
        => /\ val.err # NoErr
           /\ val.err.kind = ErrKindOf(val.change)
           /\ val.change.log = 0 => val.err.tx = val.change.tx - 1
           /\ val.err.kind = "log_index" => val.err.tx = val.change.tx - 1

\* C32: if validateReceipts returns no error, the list has len(txHashes)
\* receipts and, at every position i, the receipt is not null, its
\* TransactionIndex is i, its block number is present and equals block.Number
\* and its block hash equals block.Hash.
C32_AcceptedStructure ==
    (val.done /\ val.err = NoErr) =>
        /\ Len(val.receipts) = Len(val.txHashes)
        /\ \A i \in 1..Len(val.receipts) :
            /\ val.receipts[i] # NilReceipt
            /\ val.receipts[i].TransactionIndex = i - 1
            /\ val.receipts[i].BlockNumber # NilBlockNumber
            /\ val.receipts[i].BlockNumber = val.block.Number
            /\ val.receipts[i].BlockHash = val.block.Hash

\* C32 with the block number compared as validateReceipts compares it, by its
\* low 64 bits
C32_UpToUint64 ==
    (val.done /\ val.err = NoErr) =>
        /\ Len(val.receipts) = Len(val.txHashes)
        /\ \A i \in 1..Len(val.receipts) :
            /\ val.receipts[i] # NilReceipt
            /\ val.receipts[i].TransactionIndex = i - 1
            /\ val.receipts[i].BlockNumber # NilBlockNumber
            /\ Uint64(val.receipts[i].BlockNumber) = val.block.Number
            /\ val.receipts[i].BlockHash = val.block.Hash

\* C33: a list is accepted only if, for every receipt, gasUsed is
\* cumulativeGasUsed minus the cumulativeGasUsed of the receipt before (0 before
\* the first) as a difference of integers; no list whose cumulativeGasUsed
\* decreases is accepted.
C33_NoWrapAround ==
    (val.done /\ val.err = NoErr) =>
        \A i \in 1..Len(val.receipts) :
            /\ val.receipts[i].GasUsed =
                  val.receipts[i].CumulativeGasUsed
                    - (IF i = 1 THEN 0 ELSE val.receipts[i - 1].CumulativeGasUsed)
            /\ i > 1 => val.receipts[i].CumulativeGasUsed
                            >= val.receipts[i - 1].CumulativeGasUsed

\* C33 with the difference taken as validateReceipts takes it, in 64 bits
C33_UpToUint64 ==
    (val.done /\ val.err = NoErr) =>
        \A i \in 1..Len(val.receipts) :
            val.receipts[i].GasUsed =
                (val.receipts[i].CumulativeGasUsed
                    - (IF i = 1 THEN 0 ELSE val.receipts[i - 1].CumulativeGasUsed))
                % GasModulus

\* C34: a list is accepted only if its logs, taken over all receipts in order,
\* have the indices 0, 1, 2, ... without a gap and without a restart at a
\* receipt, and every log of receipt i has TxIndex i, the TxHash txHashes[i], the
\* hash and the number of the requested block, and is not removed.
C34_LogChecks ==
    (val.done /\ val.err = NoErr) =>
        \A i \in 1..Len(val.receipts) :
            \A j \in 1..Len(val.receipts[i].Logs) :
                LET log == val.receipts[i].Logs[j] IN
                /\ log.Index = LogsBefore(val.receipts, i) + j - 1
                /\ log.TxIndex = i - 1
                /\ log.TxHash = val.txHashes[i]
                /\ log.BlockHash = val.block.Hash
                /\ log.BlockNumber = val.block.Number
                /\ ~log.Removed

\* an accepted list whose second receipt carries the logs 1 and 2 of the block
C34_Witness ==
    /\ val.done
    /\ val.err = NoErr
    /\ Len(val.receipts) = 2
    /\ Len(val.receipts[1].Logs) = 1
    /\ Len(val.receipts[2].Logs) = 2
    /\ val.receipts[2].Logs[2].Index = 2
    /\ val.change.field = "Data"

----------------------------------------------------------------------------
(* Properties of RPCProviderKind.Set and AvailableReceiptsFetchingMethods (FlagSpec) *)

\* the ten kind strings
EnumeratedKinds == {"alchemy", "quicknode", "infura", "parity", "nethermind",
                    "debug_geth", "erigon", "basic", "any", "standard"}

\* C16: Set(value) with one of the ten enumerated kind strings sets the receiver to
\* that kind and returns no error; with any other value it returns an error and
\* leaves the receiver's kind as it was.
C16_SetAcceptsEnumerated ==
    [][flag'.op = "Set" =>
            IF flag'.value \in EnumeratedKinds
            THEN flag'.kind = flag'.value /\ flag'.err = NoErr
            ELSE flag'.err # NoErr /\ flag'.kind = flag.kind
      ]_vars

\* a flag holding erigon was given a string that differs from a kind in case only
C16_Witness ==
    /\ flag.op = "Set"
    /\ flag.value = "Alchemy"
    /\ flag.err # NoErr
    /\ flag.kind = RPCKindErigon

\* C17: AvailableReceiptsFetchingMethods gives, for kind any, the union of the six
\* known methods; for basic and infura, the per-transaction method only; for every
\* kind, recognised or not, a set that contains the per-transaction bit and no bit
\* outside the six known methods.
C17_RegistryTable ==
    flag.op = "Lookup" =>
        /\ flag.asked = "any" => flag.methods = OrAll(KnownMethods)
        /\ flag.asked \in {"basic", "infura"} => flag.methods = EthGetTransactionReceiptBatch
        /\ BitAnd(flag.methods, EthGetTransactionReceiptBatch) # 0
        /\ BitAnd(flag.methods, OrAll(KnownMethods)) = flag.methods

\* the registry was asked about a kind it does not know
C17_Witness ==
    /\ flag.op = "Lookup"
    /\ flag.asked = UnknownKind
    /\ flag.methods = EthGetTransactionReceiptBatch

----------------------------------------------------------------------------
(* Properties of the adaptive fetcher over unbounded time (LiveSpec) *)

\* C19: if time keeps advancing and FetchReceipts keeps being called, then from
\* every state in which availableReceiptMethods is not the registry default of the
\* kind the fetcher reaches a state in which it is: no narrowing lasts forever.
C19_SelfHealing ==
    (availableReceiptMethods # Default) ~> (availableReceiptMethods = Default)

\* the selection of a call has just restored a narrowed set to the registry default
C19_Witness ==
    /\ inflight.active
    /\ inflight.restored
    /\ availableReceiptMethods = Default
    /\ lastMethodsReset = now

----------------------------------------------------------------------------
(* Properties of the fetcher against a rejecting node (DegradeSpec) *)

\* the bulk methods of the registry default of the kind, in preference order
BulkOfDefault == SelectSeq(PreferenceOrder, LAMBDA m : BitAnd(Default, m) # 0)

\* C29: for a kind other than alchemy and quicknode, without a reset and against a
\* node that rejects every bulk method as unusable, the calls try the bulk methods
\* of the registry default one after the other in the preference order, each once,
\* and every call after these uses the per-transaction method.
C29_BoundedDegradation ==
    provKind \notin {RPCKindAlchemy, RPCKindQuickNode} =>
        \A i \in 1..Len(tried) :
            tried[i] = IF i <= Len(BulkOfDefault) THEN BulkOfDefault[i]
                       ELSE EthGetTransactionReceiptBatch

\* kind any: five bulk methods tried and given up, then the per-transaction method twice
C29_Witness ==
    /\ provKind = RPCKindAny
    /\ Len(tried) = 7
    /\ tried[5] = ParityGetBlockReceipts
    /\ tried[6] = EthGetTransactionReceiptBatch
    /\ tried[7] = EthGetTransactionReceiptBatch

----------------------------------------------------------------------------
(* Properties of BasicRPCReceiptsFetcher.FetchReceipts (BasicSpec) *)

\* C30: the call returns (nil, err) at the first Fetch that returns an error other
\* than io.EOF, and makes no further Fetch; it returns the result of the batch call,
\* the receipts of all txHashes, only after a Fetch that returned io.EOF; and, each
\* Fetch making progress or failing, it returns for every list of txHashes.
C30_BasicLoop ==
    /\ [][/\ basic'.last = "error" =>
                /\ basic'.pc = "returned"
                /\ basic'.err # NoErr
                /\ basic'.result = NilReceipts
          /\ (basic'.pc = "returned" /\ basic'.err = NoErr) =>
                /\ basic'.last = "EOF"
                /\ Len(basic'.result) = basic.n
          /\ basic.pc = "returned" => basic' = basic
         ]_vars
    /\ <>(basic.pc = "returned")

\* every batch of a block with more transactions than two batches hold was fetched
C30_Witness ==
    /\ basic.pc = "returned"
    /\ basic.err = NoErr
    /\ basic.n > 2 * basic.batch
    /\ basic.steps > 3
    /\ Len(basic.result) = basic.n

----------------------------------------------------------------------------
(* Properties of overlapping calls of the fetcher (RaceSpec) *)

\* the bits a bit-clear just written set again: clears of other calls that it lost
LostClears == BitAndNot(availableReceiptMethods, ret.before)

\* the bits other than its own a bit-clear just written took away: they were
\* restored by a reset between its read and its write, and the reset is undone
LostReset == BitAndNot(BitAndNot(ret.before, ret.m), availableReceiptMethods)

\* the callers that have selected a method and not yet returned
Selected == {c \in Callers : calls[c].pc \in {"request", "clear_read", "clear_write"}}

C22_LostClear ==
    /\ ret.op = "clear"
    /\ LostClears # 0

----------------------------------------------------------------------------
(* Properties of overlapping calls of the caching provider (ColdSpec) *)

\* the entries of a cache, whatever their order
Entries(c) == {c[i] : i \in 1..Len(c)}

\* a step of caller c
StepOf(c) == ret'.caller = c /\ (calls'[c] # calls[c] \/ ret'.op = "hit")

\* C23: of overlapping calls for one block hash, each that saw the miss leaves
\* the miss by an inner fetch of its own, whether the key has been stored
\* meanwhile or not; each successful one stores the result of its own inner
\* fetch as the entry of the key and returns that result, each failed one
\* returns the error of its own inner fetch and stores nothing; no other
\* step changes an entry, so the entry that remains is that of the last write.
C23_ColdMisses ==
    [][\A c \in Callers :
          /\ (calls[c].pc = "inner" /\ calls'[c] # calls[c]) =>
                /\ ret'.op = "inner" /\ ret'.caller = c
                /\ calls'[c].pc = "fetched"
                /\ calls'[c].result = ret'.result /\ calls'[c].err = ret'.err
                /\ cache' = cache
          /\ (calls[c].pc = "fetched" /\ calls'[c] # calls[c] /\ calls[c].err = NoErr) =>
                /\ ret'.op = "added" /\ ret'.caller = c
                /\ ret'.result = calls[c].result /\ ret'.err = NoErr
                /\ cache'[Len(cache')] = [key |-> calls[c].block.Hash, value |-> calls[c].result]
                /\ Entries(cache') \ {cache'[Len(cache')]} \subseteq Entries(cache)
          /\ (calls[c].pc = "fetched" /\ calls'[c] # calls[c] /\ calls[c].err # NoErr) =>
                /\ ret'.op = "failed" /\ ret'.caller = c
                /\ ret'.result = NilReceipts /\ ret'.err = calls[c].err
                /\ cache' = cache
          /\ (calls[c].pc = "idle" /\ StepOf(c)) => Entries(cache') = Entries(cache)]_vars

\* a call that saw the miss has stored its result over the different result
\* another call stored for the same hash meanwhile
C23_Witness ==
    /\ ret.op = "added"
    /\ ret.had
    /\ ret.old # ret.result
    /\ cache[Len(cache)] = [key |-> ret.block.Hash, value |-> ret.result]

\* what a successful inner FetchReceipts can return for each block
SuccessfulResults ==
    [block \in Blocks |->
        {out.result : out \in {o \in {Dispatch(m, block, TxHashesOf(block), rpc) :
                                         m \in KnownMethods, rpc \in RPCOutcomes} :
                                  o.err = NoErr}}]

\* C24: in every state, between the steps of overlapping calls too, the cache
\* holds at most one entry per key and no more entries than its capacity, and
\* each entry is the whole list a successful inner FetchReceipts returns for
\* the block with that hash.
C24_WholeEntries ==
    /\ Len(cache) <= CacheSize
    /\ \A i, j \in 1..Len(cache) : cache[i].key = cache[j].key => i = j
    /\ \A i \in 1..Len(cache) :
          \E block \in Blocks : /\ block.Hash = cache[i].key
                                /\ cache[i].value \in SuccessfulResults[block]

\* a call whose inner fetch failed has returned while another call is running,
\* and the entry another call stored for its hash is there
C24_Witness ==
    /\ ret.op = "failed"
    /\ ret.block.Hash \in CacheKeys(cache)
    /\ \E c \in Callers : calls[c].pc \in {"inner", "fetched"}

----------------------------------------------------------------------------
(* Properties of validateReceipts for answers changed twice (OrderSpec) *)

\* the logs of receipt i, none for a nil receipt
LogsOf(receipts, i) == IF receipts[i] = NilReceipt THEN << >> ELSE receipts[i].Logs

RECURSIVE LogCountBefore(_, _)
\* the number of logs of the receipts before receipt i
LogCountBefore(receipts, i) ==
    IF i = 1 THEN 0 ELSE Len(LogsOf(receipts, i - 1)) + LogCountBefore(receipts, i - 1)

\* cumulativeGasUsed of the receipt before receipt i, 0 before the first
GasBefore(receipts, i) ==
    IF i = 1 \/ receipts[i - 1] = NilReceipt THEN 0 ELSE receipts[i - 1].CumulativeGasUsed

\* the checks a receipt undergoes, in the order of the claim: for each the
\* error it stands for and whether the list violates it, the comparisons being
\* those validateReceipts makes
ReceiptChecks(block, receipts, i) ==
    LET r == receipts[i]
        C(kind, bad) == [kind |-> kind, tx |-> i - 1, bad |-> bad]
    IN  << C("nil_receipt", r = NilReceipt),
           C("tx_index", r # NilReceipt /\ r.TransactionIndex # i - 1),
           C("nil_block_number", r # NilReceipt /\ r.BlockNumber = NilBlockNumber),
           C("block_number", /\ r # NilReceipt
                             /\ r.BlockNumber # NilBlockNumber
                             /\ Uint64(r.BlockNumber) # block.Number),
           C("block_hash", r # NilReceipt /\ r.BlockHash # block.Hash),
           C("gas_used", /\ r # NilReceipt
                         /\ r.GasUsed # (r.CumulativeGasUsed - GasBefore(receipts, i))
                                            % GasModulus) >>

\* the kinds of the checks a log undergoes, in the order of the claim
LogCheckKinds ==
    <<"log_index", "log_tx_index", "log_block_hash", "log_block_number", "log_tx_hash",
      "log_removed">>

\* whether log j of receipt i violates the check of a kind
LogCheckBad(block, txHashes, receipts, i, j, kind) ==
    LET log == receipts[i].Logs[j] IN
    CASE kind = "log_index" -> log.Index # LogCountBefore(receipts, i) + j - 1
      [] kind = "log_tx_index" -> log.TxIndex # i - 1
      [] kind = "log_block_hash" -> log.BlockHash # block.Hash
      [] kind = "log_block_number" -> log.BlockNumber # block.Number
      [] kind = "log_tx_hash" -> i > Len(txHashes) \/ log.TxHash # txHashes[i]
      [] kind = "log_removed" -> log.Removed

\* the checks the logs of receipt i undergo, log after log
LogChecks(block, txHashes, receipts, i) ==
    [k \in 1..(Len(LogCheckKinds) * Len(LogsOf(receipts, i))) |->
        [kind |-> LogCheckKinds[((k - 1) % Len(LogCheckKinds)) + 1],
         tx |-> i - 1,
         bad |-> LogCheckBad(block, txHashes, receipts, i,
                             ((k - 1) \div Len(LogCheckKinds)) + 1,
                             LogCheckKinds[((k - 1) % Len(LogCheckKinds)) + 1])]]

RECURSIVE PerReceiptChecks(_, _, _, _)
\* the checks of the receipts from receipt i on, receipt after receipt, each
\* followed by those of its logs
PerReceiptChecks(block, txHashes, receipts, i) ==
    IF i > Len(receipts) THEN << >>
    ELSE ReceiptChecks(block, receipts, i) \o LogChecks(block, txHashes, receipts, i)
            \o PerReceiptChecks(block, txHashes, receipts, i + 1)

\* all checks of a call in the order of the claim; the root is compared with
\* the root of a list without nil receipts only
ChecksInOrder(block, receiptHash, txHashes, receipts) ==
    << [kind |-> "receipts_count", tx |-> 0, bad |-> Len(receipts) # Len(txHashes)],
       [kind |-> "non_empty_root", tx |-> 0,
        bad |-> Len(txHashes) = 0 /\ receiptHash # EmptyRootHash] >>
    \o PerReceiptChecks(block, txHashes, receipts, 1)
    \o << [kind |-> "receipt_root", tx |-> 0,
           bad |-> /\ \A i \in 1..Len(receipts) : receipts[i] # NilReceipt
                   /\ receiptHash # DeriveSha(receipts)] >>

\* the violated checks among them, in that order
Violated(checks) == SelectSeq(checks, LAMBDA c : c.bad)

\* the errors that name a receipt
ReceiptErrKinds ==
    {"nil_receipt", "tx_index", "nil_block_number", "block_number", "block_hash", "gas_used",
     "log_index"}

\* the error err is the one of the first of the violated checks v, or nil if
\* there is none
FirstViolated(err, v) ==
    IF v = << >> THEN err = NoErr
    ELSE /\ err # NoErr
         /\ err.kind = v[1].kind
         /\ err.kind \in ReceiptErrKinds => err.tx = v[1].tx

\* C31: validateReceipts returns the error of the first violated check in the
\* order count, empty-block root, then receipt by receipt (null, tx index, block
\* number, block hash, gas, then its logs in order, each log by index, tx index,
\* block hash, block number, tx hash, removed), then the trie root; it returns
\* nil when no check is violated, and a root mismatch only when every check
\* before the root passed.
C31_FailFastOrder ==
    val.done =>
        /\ FirstViolated(val.err, Violated(ChecksInOrder(val.block, val.receiptHash,
                                                         val.txHashes, val.receipts)))
        /\ (val.err # NoErr /\ val.err.kind = "receipt_root") =>
                checkReceipts(val.block, val.txHashes, val.receipts, 1, 0, 0) = NoErr

\* a list with a removed log in the first receipt and another block hash in the
\* second, given with a root that does not match either: the log is reported
C31_Witness ==
    /\ val.done
    /\ val.change.field = "BlockHash" /\ val.change.log = 0 /\ val.change.tx = 2
    /\ val.second.field = "Removed" /\ val.second.tx = 1
    /\ val.receiptHash = OtherRoot
    /\ val.err # NoErr
    /\ val.err.kind = "log_removed"

====
